---- MODULE Spec2Model ----
(***************************************************************************)
(* Model of the 3D lithology model code of PyGMI (pygmi/pfmod):            *)
(*   misc.py   : MergeMod3D.acceptall, gmerge                              *)
(*   iodefs.py : ImportMod3D (dict2lmod, import_ascii_xyz_model,           *)
(*               import_leapfrog_csv, settings), ExportMod3D.lmod2dict     *)
(*                                                                         *)
(* Numbers.  World coordinates, cell sizes and ranges are integers.  The   *)
(* importers halve a cell size (min - dxy/2), so their coordinates are     *)
(* counted in half units and sample coordinates and cell sizes are even.   *)
(* Raster values are fixed point, in hundredths: 0.1 is 10, 1.0 is 100,    *)
(* 1000 is 100000.                                                         *)
(***************************************************************************)
EXTENDS Integers, Sequences, FiniteSets, TLC

VARIABLES
    pc,         \* position of the running operation
    datmaster,  \* MergeMod3D: the master LithModel (mutated in place)
    datslave,   \* MergeMod3D: the slave LithModel (mutated in place)
    master0,    \* the master as it was handed to acceptall
    slave0,     \* the slave as it was handed to acceptall
    liths,      \* acceptall: the order in which all_liths was enumerated
    emod,       \* ExportMod3D.lmod: the model being encoded
    indict,     \* the flat record (outdict of lmod2dict, indict of dict2lmod)
    lmod,       \* ImportMod3D.lmod: the model being imported or decoded
    infile,     \* the rows of the file given to an importer
    lmod0,      \* ImportMod3D.lmod as it was when settings was called
    gorder,     \* the order in which the loops over lmod.griddata met the layers
    pbar,       \* ProgressBar: the object, its widget and the frame of iter
    seen,       \* what the loop driving ProgressBar.iter has been handed
    clock,      \* time.clock()
    rcopy       \* RangedCopy: what the dialog held when it was closed

vars == <<pc, datmaster, datslave, master0, slave0, liths, emod, indict, lmod, infile,
          lmod0, gorder, pbar, seen, clock, rcopy>>

-----------------------------------------------------------------------------
(* Bounds of the model *)

\* largest number of columns of an input voxel grid of the merge
MaxCols == 2

-----------------------------------------------------------------------------
(* Generic helpers *)

Min2(a, b) == IF a <= b THEN a ELSE b
Max2(a, b) == IF a >= b THEN a ELSE b
SetMin(S) == CHOOSE m \in S : \A o \in S : m <= o
SetMax(S) == CHOOSE m \in S : \A o \in S : m >= o

\* Python's int(a/b) for b # 0: truncation toward zero
TruncDiv(a, b) ==
    IF b > 0 THEN (IF a >= 0 THEN a \div b ELSE -((-a) \div b))
    ELSE (IF a >= 0 THEN -(a \div (-b)) ELSE (-a) \div (-b))

\* all orderings of a finite set, as sequences without repetition
Perms(S) == { s \in [1..Cardinality(S) -> S] : \A i, j \in 1..Cardinality(S) : s[i] = s[j] => i = j }

\* the function f with key k set to v (a Python dict assignment d[k] = v)
Put(f, k, v) == [x \in (DOMAIN f) \cup {k} |-> IF x = k THEN v ELSE f[x]]

None == "None"

-----------------------------------------------------------------------------
(* Raster layers (pygmi Data objects) and gmerge *)

\* the cells of a rows x cols array
RCells(rows, cols) == (0..(rows-1)) \X (0..(cols-1))

\* gmerge: the value np.ma.masked_equal(tmp, 1e+20) masks, standing for 1e+20
FillValue == 2000000000

\* a faulty variant of MergeKeys: every layer is blended
MergeKeysWide ==
    {"DTM Dataset", "Magnetic Dataset", "Gravity Dataset", "Study Area Dataset", "Gravity Regional",
     "Calculated Gravity"}

\* the keys of the raster layers acceptall blends
MergeKeys == {"DTM Dataset", "Magnetic Dataset", "Gravity Dataset", "Study Area Dataset", "Gravity Regional"}

\* data.data.min() <= 0 decides the shift: doffset = data.data.min() - 1.
\* (the minimum of a fully masked array is masked, and the test is then false)
Doffset(d) ==
    LET valid == { d.data[c] : c \in { c \in DOMAIN d.data : ~d.mask[c] } }
    IN  IF valid # {} /\ SetMin(valid) <= 0 THEN SetMin(valid) - 100 ELSE 0

\* data.data -= doffset; filled with 0; masked where equal to 0; nullvalue = 0
ShiftBy(d, off) ==
    [d EXCEPT !.data = [c \in DOMAIN d.data |-> IF d.mask[c] THEN 0 ELSE d.data[c] - off],
              !.mask = [c \in DOMAIN d.data |-> d.mask[c] \/ d.data[c] - off = 0],
              !.nullvalue = 0]

\* the input Data object as gmerge leaves it
GmergeShift(d) == ShiftBy(d, Doffset(d))

\* data_to_gdal_mem + gdal.ReprojectImage + gdal_to_dat: the shifted raster d on
\* the grid with top left corner (xmin, ymax), cells xdim x ydim, cols x rows.
\* A destination cell takes the value of the source cell holding its centre;
\* outside the source, or on a masked source cell, it is the no-data value 0.
Reproject(d, xmin, ymax, xdim, ydim, cols, rows) ==
    [c \in RCells(rows, cols) |->
        LET cx2 == 2*xmin + (2*c[2] + 1)*xdim
            cy2 == 2*ymax - (2*c[1] + 1)*ydim
            dx2 == cx2 - 2*d.tlx
            dy2 == 2*d.tly - cy2
            sc  == dx2 \div (2*d.xdim)
            sr  == dy2 \div (2*d.ydim)
        IN  IF dx2 >= 0 /\ dy2 >= 0 /\ sc < d.cols /\ sr < d.rows
            THEN (IF d.mask[<<sr, sc>>] THEN 0 ELSE d.data[<<sr, sc>>])
            ELSE 0]

\* the valid values of a raster
ValidValues(d) == { d.data[c] : c \in { c \in DOMAIN d.data : ~d.mask[c] } }

\* masked_equal(0), masked_outside(0.1, data.data.max() + 1000), + doffset,
\* filled(1e+20): the reprojected array dest with what falls outside the band
\* replaced by the fill value, valid being the valid values of the shifted input
MaskOutside(dest, valid, off) ==
    [c \in DOMAIN dest |->
        IF dest[c] = 0 \/ valid = {} \/ dest[c] < 10 \/ dest[c] > SetMax(valid) + 100000
        THEN FillValue ELSE dest[c] + off]

\* the Data object appended to dat: masked_equal(tmp, 1e+20) on the new grid
NewData(tmp, d, wkt, xmin, ymax, xdim, ydim, cols, rows) ==
    [data |-> tmp,
     mask |-> [c \in DOMAIN tmp |-> tmp[c] = FillValue],
     cols |-> cols, rows |-> rows, xdim |-> xdim, ydim |-> ydim,
     tlx |-> xmin, tly |-> ymax, wkt |-> wkt,
     nullvalue |-> FillValue, dataid |-> d.dataid]

\* the shifted input sh reprojected, masked and unshifted
GmergeReprojected(sh, off, wkt, xmin, ymax, xdim, ydim, cols, rows) ==
    NewData(MaskOutside(Reproject(sh, xmin, ymax, xdim, ydim, cols, rows), ValidValues(sh), off),
            sh, wkt, xmin, ymax, xdim, ydim, cols, rows)

\* one pass of gmerge's loop: dat[-1] for the input d (as handed in)
GmergeDat(d, off, wkt, xmin, ymax, xdim, ydim, cols, rows) ==
    GmergeReprojected(ShiftBy(d, off), off, wkt, xmin, ymax, xdim, ydim, cols, rows)

\* imask.size > 1 guards the substitution of slave's values
GmergeCombines(size) == size > 1

\* imask = master masked and slave valid; dat[0].data[imask] = dat[1].data[imask]
GmergeCombine(d0, d1, size) ==
    IF GmergeCombines(size)
    THEN [d0 EXCEPT !.data = [c \in DOMAIN d0.data |->
                                 IF d0.mask[c] /\ ~d1.mask[c] THEN d1.data[c] ELSE d0.data[c]],
                    !.mask = [c \in DOMAIN d0.mask |->
                                 IF d0.mask[c] /\ ~d1.mask[c] THEN FALSE ELSE d0.mask[c]]]
    ELSE d0

\* gmerge on the grid of cols x rows cells from the corner (xmin, ymax)
GmergeOnGrid(master, slave, xmin, ymax, cols, rows) ==
    GmergeCombine(GmergeDat(master, Doffset(master), master.wkt, xmin, ymax, master.xdim, master.ydim, cols, rows),
                  GmergeDat(slave, Doffset(slave), master.wkt, xmin, ymax, master.xdim, master.ydim, cols, rows),
                  rows * cols)

\* gmerge's result dat[0]
Gmerge(master, slave, xrange, yrange) ==
    GmergeOnGrid(master, slave, xrange[1], yrange[2],
                 ((xrange[2] - xrange[1]) \div master.xdim) + 1,
                 ((yrange[2] - yrange[1]) \div master.ydim) + 1)


-----------------------------------------------------------------------------
(* Lithology models (pygmi LithModel objects) *)

\* the cells [col, row, layer] of a numx x numy x numz voxel grid
Cells(numx, numy, numz) == (0..(numx-1)) \X (0..(numy-1)) \X (0..(numz-1))

\* GeoData(parent, ncols, nrows, numz, dxy, d_z): a lithology with the
\* constructor's default properties
GeoData(ncols, nrows, numz, dxy, d_z) ==
    [hintn |-> 30000, finc |-> -63, fdec |-> -17, zobsm |-> -100, zobsg |-> 0,
     susc |-> 1, mstrength |-> 0, qratio |-> 0, minc |-> -63, mdec |-> -17,
     density |-> 285, bdensity |-> 267, lith_index |-> 0,
     g_cols |-> ncols, g_rows |-> nrows, numz |-> numz,
     g_dxy |-> dxy, dxy |-> dxy, d_z |-> d_z, modified |-> TRUE,
     x12 |-> <<ncols, dxy>>, y12 |-> <<nrows, dxy>>, z12 |-> <<numz, d_z>>]

\* GeoData.set_xyz12: the cached box is recomputed from the grid parameters
SetXyz12(g) ==
    [g EXCEPT !.x12 = <<g.g_cols, g.g_dxy>>, !.y12 = <<g.g_rows, g.g_dxy>>,
              !.z12 = <<g.numz, g.d_z>>]

\* LithModel.update(cols, rows, layers, utlx, utly, utlz, dxy, d_z, usedtm=False):
\* the model on the new grid.  A new cell takes the value of the old cell that
\* holds its centre and is 0 outside the old footprint.  Cell [i, j, k] has its
\* corner at x = xmin + i*dxy, y = ymax - j*dxy, z = zmax - k*d_z.
Update(m, cols, rows, layers, utlx, utly, utlz, dxy, d_z) ==
    LET new == [c \in Cells(cols, rows, layers) |->
                  LET cx2 == 2*utlx + (2*c[1] + 1)*dxy
                      cy2 == 2*utly - (2*c[2] + 1)*dxy
                      cz2 == 2*utlz - (2*c[3] + 1)*d_z
                      ox2 == cx2 - 2*m.xrange[1]
                      oy2 == 2*m.yrange[2] - cy2
                      oz2 == 2*m.zrange[2] - cz2
                      oc  == <<ox2 \div (2*m.dxy), oy2 \div (2*m.dxy), oz2 \div (2*m.d_z)>>
                  IN  IF ox2 > 0 /\ oy2 > 0 /\ oz2 > 0 /\ oc \in DOMAIN m.lith_index
                      THEN m.lith_index[oc] ELSE 0]
    IN  [m EXCEPT !.numx = cols, !.numy = rows, !.numz = layers,
                  !.xrange = <<utlx, utlx + cols*dxy>>,
                  !.yrange = <<utly - rows*dxy, utly>>,
                  !.zrange = <<utlz - layers*d_z, utlz>>,
                  !.dxy = dxy, !.d_z = d_z, !.lith_index = new]

-----------------------------------------------------------------------------
(* MergeMod3D.acceptall *)

\* lithcnt = 9000: the offset of the temporary indices
LithOffset == 9000

\* xrange = list(datmaster.xrange) + list(datslave.xrange); sort; [first, last]
UnionRange(a, b) == <<SetMin({a[1], a[2], b[1], b[2]}), SetMax({a[1], a[2], b[1], b[2]})>>

\* cols = int(xextent//dxy), rows = int(yextent//dxy), layers = int(zextent//d_z)
NumCells(extent, cell) == extent \div cell

\* the raster loop: every whitelisted layer of master that slave carries too is
\* replaced by the blend; gmerge also rewrites the slave's own Data object
MergeGridsMaster(m, s, xrange, yrange) ==
    [k \in DOMAIN m.griddata |->
        IF k \in MergeKeys /\ k \in DOMAIN s.griddata
        THEN Gmerge(m.griddata[k], s.griddata[k], xrange, yrange)
        ELSE m.griddata[k]]

MergeGridsSlave(m, s) ==
    [k \in DOMAIN s.griddata |->
        IF k \in MergeKeys /\ k \in DOMAIN m.griddata
        THEN GmergeShift(s.griddata[k])
        ELSE s.griddata[k]]

\* data_to_gdal_mem(data, gtr0, orig_wkt, data.cols, data.rows) writes data.data
\* into a raster of the declared size; the write fails when the array does not
\* have the declared shape
ShapeMismatch(d) == DOMAIN d.data # RCells(d.rows, d.cols)

\* one pass of the raster loop for a whitelisted key k that slave carries.
\* gmerge shifts an input in place before it hands it to data_to_gdal_mem,
\* master first: a failure leaves master's entry the shifted old object
RasterStep(st, k, xrange, yrange) ==
    IF ShapeMismatch(st.m.griddata[k])
    THEN [st EXCEPT !.m.griddata[k] = GmergeShift(@), !.err = TRUE]
    ELSE IF ShapeMismatch(st.s.griddata[k])
    THEN [st EXCEPT !.m.griddata[k] = GmergeShift(@), !.s.griddata[k] = GmergeShift(@), !.err = TRUE]
    ELSE [st EXCEPT !.m.griddata[k] = Gmerge(@, st.s.griddata[k], xrange, yrange),
                    !.s.griddata[k] = GmergeShift(@)]

\* the loop "for i in datmaster.griddata" over the keys in the order gord, from
\* key i on, until a blend raises
RECURSIVE RasterLoop(_, _, _, _, _)
RasterLoop(st, gord, i, xrange, yrange) ==
    IF i > Len(gord) \/ st.err THEN st
    ELSE IF gord[i] \notin MergeKeys \/ gord[i] \notin DOMAIN st.s.griddata
    THEN RasterLoop(st, gord, i + 1, xrange, yrange)
    ELSE RasterLoop(RasterStep(st, gord[i], xrange, yrange), gord, i + 1, xrange, yrange)

\* the raster loop of acceptall on master m and slave s
RasterLoopResult(m, s, gord) ==
    RasterLoop([m |-> m, s |-> s, err |-> FALSE], gord, 1,
               UnionRange(m.xrange, s.xrange), UnionRange(m.yrange, s.yrange))

\* a faulty variant of Relabel: the cells take the final index at once, without the temporary offset
RelabelDirect(grid, old, new) == [c \in DOMAIN grid |-> IF grid[c] = old THEN new - 9000 ELSE grid[c]]

\* datX.lith_index[datX.lith_index == old] = new
Relabel(grid, old, new) == [c \in DOMAIN grid |-> IF grid[c] = old THEN new ELSE grid[c]]

\* one model's part of the relabelling of one lithology: it is recoloured from
\* the model's own colour table, its cells take the temporary index lithcnt and
\* its catalogue entry the final index lithcnt - 9000
RelabelOne(st, who, lith, lithcnt) ==
    LET d   == st[who]
        old == d.lith_list[lith].lith_index
    IN  IF lith \notin DOMAIN d.lith_list THEN st
        ELSE IF old \notin DOMAIN d.mlut THEN [st EXCEPT !.err = TRUE]
        ELSE [st EXCEPT !.newmlut = Put(st.newmlut, lithcnt - LithOffset, d.mlut[old]),
                        ![who] = [d EXCEPT !.lith_index = Relabel(d.lith_index, old, lithcnt),
                                           !.lith_list[lith].lith_index = lithcnt - LithOffset]]

\* the loop "for lith in all_liths" over the names in the order ord, from name i on
RECURSIVE RelabelLoop(_, _, _, _)
RelabelLoop(st, ord, i, lithcnt) ==
    IF i > Len(ord) \/ st.err THEN st
    ELSE IF ord[i] = "Background" THEN RelabelLoop(st, ord, i + 1, lithcnt)
    ELSE LET s1 == RelabelOne(st, "s", ord[i], lithcnt + 1)
             s2 == IF s1.err THEN s1 ELSE RelabelOne(s1, "m", ord[i], lithcnt + 1)
         IN  RelabelLoop(s2, ord, i + 1, lithcnt + 1)

\* a faulty variant of FillFromSlave: slave's cell wins wherever slave holds a lithology
FillSlaveWins(mgrid, sgrid) == [c \in DOMAIN mgrid |-> IF sgrid[c] # 0 THEN sgrid[c] ELSE mgrid[c]]

\* datmaster.lith_index[datmaster.lith_index == 0] = datslave.lith_index[...]
FillFromSlave(mgrid, sgrid) == [c \in DOMAIN mgrid |-> IF mgrid[c] = 0 THEN sgrid[c] ELSE mgrid[c]]

\* a faulty variant of ShiftBack: the temporary indices are left in the grid
ShiftBackNone(grid) == grid

\* datmaster.lith_index[datmaster.lith_index > 9000] -= 9000
ShiftBack(grid) == [c \in DOMAIN grid |-> IF grid[c] > LithOffset THEN grid[c] - LithOffset ELSE grid[c]]

\* the colour acceptall stores for a lithology copied from slave:
\* datmaster.mlut[lithnum] = datslave.mlut[lithnum]
CopiedColourKey(lithnum) == lithnum

\* the loop "for lith in datslave.lith_list" over the names in the order ord,
\* from name i on; a missing colour key raises KeyError and ends the loop with
\* the catalogue entry already stored
RECURSIVE CatalogueLoop(_, _, _, _)
CatalogueLoop(m, s, ord, i) ==
    IF i > Len(ord) THEN [m |-> m, err |-> FALSE]
    ELSE IF ord[i] \in DOMAIN m.lith_list THEN CatalogueLoop(m, s, ord, i + 1)
    ELSE LET lithnum == s.lith_list[ord[i]].lith_index
             m1 == [m EXCEPT !.lith_list = Put(m.lith_list, ord[i], s.lith_list[ord[i]])]
         IN  IF CopiedColourKey(lithnum) \notin DOMAIN s.mlut
             THEN [m |-> m1, err |-> TRUE]
             ELSE CatalogueLoop([m1 EXCEPT !.mlut = Put(m1.mlut, lithnum, s.mlut[CopiedColourKey(lithnum)])],
                                s, ord, i + 1)

\* the end of acceptall, st being the models after the relabel loop: the colour
\* table is replaced, master's zero cells are filled from slave, the temporary
\* indices shifted back and slave's own lithologies copied
AcceptAllFinish(st, ord2) ==
    CatalogueLoop([st.m EXCEPT !.mlut = st.newmlut,
                               !.lith_index = ShiftBack(FillFromSlave(st.m.lith_index, st.s.lith_index))],
                  st.s, ord2, 1)

\* what acceptall leaves: the two models and whether it raised
AcceptAllLeaves(st, cat) ==
    IF st.err THEN [m |-> st.m, s |-> st.s, err |-> TRUE]
    ELSE [m |-> cat.m, s |-> st.s, err |-> cat.err]

\* acceptall from the relabel loop on
AcceptAllRelabelled(st, ord2) == AcceptAllLeaves(st, AcceptAllFinish(st, ord2))

\* acceptall on the union ranges: the layers are blended, both models resized
\* to the union grid with master's cell sizes, then relabelled
AcceptAllOnRanges(m, s, ord, ord2, xrange, yrange, zrange) ==
    AcceptAllRelabelled(
        RelabelLoop([m |-> Update([m EXCEPT !.griddata = MergeGridsMaster(m, s, xrange, yrange)],
                                  NumCells(xrange[2] - xrange[1], m.dxy),
                                  NumCells(yrange[2] - yrange[1], m.dxy),
                                  NumCells(zrange[2] - zrange[1], m.d_z),
                                  xrange[1], yrange[2], zrange[2], m.dxy, m.d_z),
                     s |-> Update([s EXCEPT !.griddata = MergeGridsSlave(m, s)],
                                  NumCells(xrange[2] - xrange[1], m.dxy),
                                  NumCells(yrange[2] - yrange[1], m.dxy),
                                  NumCells(zrange[2] - zrange[1], m.d_z),
                                  xrange[1], yrange[2], zrange[2], m.dxy, m.d_z),
                     newmlut |-> (0 :> m.mlut[0]), err |-> FALSE],
                    ord, 1, LithOffset),
        ord2)

\* acceptall on master m and slave s, with all_liths enumerated in the order
\* ord and datslave.lith_list in the order ord2: the two models as the call
\* leaves them, and whether it raised
AcceptAllResult(m, s, ord, ord2) ==
    AcceptAllOnRanges(m, s, ord, ord2, UnionRange(m.xrange, s.xrange),
                      UnionRange(m.yrange, s.yrange), UnionRange(m.zrange, s.zrange))


-----------------------------------------------------------------------------
(* The models handed to the merge *)

\* largest lith_index of an input catalogue
MaxIndex == 2

\* the colour of index i in the colour table of input model tag (1 master, 2 slave)
InColour(tag, i) == <<tag, i, 0>>

\* all catalogues over a non-empty subset of names with distinct indices in
\* 1..MaxIndex, Background at index 0
Catalogues(names) ==
    { f \in UNION { [S -> 1..MaxIndex] : S \in (SUBSET names) \ {{}} } :
        \A a, b \in DOMAIN f : f[a] = f[b] => a = b }

\* a LithModel of n x 1 x 1, 1 x n x 1 or 1 x 1 x n cells of size cell along
\* axis (1: x, 2: y, 3: z), starting at world coordinate off on that axis
MkModel(tag, axis, off, n, cell, cat, fill, layers) ==
    LET numx == IF axis = 1 THEN n ELSE 1
        numy == IF axis = 2 THEN n ELSE 1
        numz == IF axis = 3 THEN n ELSE 1
        rng(a, k) == IF axis = a THEN <<off, off + k*cell>> ELSE <<0, cell>>
        geo(i) == [GeoData(numx, numy, numz, cell, cell) EXCEPT !.lith_index = i, !.susc = tag]
    IN  [numx |-> numx, numy |-> numy, numz |-> numz, dxy |-> cell, d_z |-> cell,
         xrange |-> rng(1, numx), yrange |-> rng(2, numy), zrange |-> rng(3, numz),
         lith_index |-> [c \in Cells(numx, numy, numz) |-> fill[c[axis]]],
         lith_list |-> [l \in (DOMAIN cat) \cup {"Background"} |->
                          IF l = "Background" THEN geo(0) ELSE geo(cat[l])],
         mlut |-> [i \in {0} \cup { cat[l] : l \in DOMAIN cat } |-> InColour(tag, i)],
         griddata |-> layers,
         gregional |-> 0, ght |-> 0, mht |-> 100, curprof |-> 0, curlayer |-> 0,
         custprofx |-> <<>>, custprofy |-> <<>>]

\* the values an input grid may hold: Background and the catalogue's indices
GridValues(cat) == {0} \cup { cat[l] : l \in DOMAIN cat }

\* no progress bar is running
NoBar == /\ pbar = None /\ seen = None /\ clock = None /\ rcopy = None

Idle == /\ emod = None /\ indict = None /\ lmod = None /\ infile = None
        /\ lmod0 = None /\ gorder = None /\ NoBar

\* a grid filled along its axis with a in the even cells and b in the odd ones
Alternate(a, b) == [i \in Nat |-> IF i % 2 = 0 THEN a ELSE b]

\* where the slave starts on the axis: on master's footprint, half a cell off
\* master's cells, one cell further, and beside master's footprint
SlaveOffsets == {0, 1, 2, 2*MaxCols}

\* master: MaxCols cells of size 2 from 0 along one axis, with lithology A or
\* A and B; slave: MaxCols cells of size 2 from soff on that axis, with B, C or both
InitMerge ==
    /\ pc = "merge"
    /\ liths = <<>>
    /\ \E mcat \in { c \in Catalogues({"A", "B"}) : "A" \in DOMAIN c }, scat \in Catalogues({"B", "C"}) :
       \E axis \in 1..3, soff \in SlaveOffsets :
       \E ma, mb \in GridValues(mcat), sa, sb \in GridValues(scat) :
          /\ datmaster = MkModel(1, axis, 0, MaxCols, 2, mcat, Alternate(ma, mb), <<>>)
          /\ datslave = MkModel(2, axis, soff, MaxCols, 2, scat, Alternate(sa, sb), <<>>)
    /\ master0 = datmaster
    /\ slave0 = datslave
    /\ Idle

\* what acceptall leaves when gmerge raised in the raster loop
AcceptAllRaised(rl) ==
    /\ datmaster' = rl.m
    /\ datslave' = rl.s
    /\ liths' = liths
    /\ pc' = "raised"

\* what acceptall leaves when the raster loop went through
AcceptAllMerged(r, ord) ==
    /\ datmaster' = r.m
    /\ datslave' = r.s
    /\ liths' = ord
    /\ pc' = IF r.err THEN "error" ELSE "done"

\* acceptall: the dialog names two different datasets and the merge runs
AcceptAll ==
    /\ pc = "merge"
    /\ \E ord \in Perms(((DOMAIN datmaster.lith_list) \cup (DOMAIN datslave.lith_list)) \ {"Background"}),
          ord2 \in Perms((DOMAIN datslave.lith_list) \ (DOMAIN datmaster.lith_list)),
          gord \in Perms(DOMAIN datmaster.griddata) :
          IF RasterLoopResult(datmaster, datslave, gord).err
          THEN AcceptAllRaised(RasterLoopResult(datmaster, datslave, gord))
          ELSE AcceptAllMerged(AcceptAllResult(datmaster, datslave, ord, ord2), ord)
    /\ UNCHANGED <<master0, slave0, emod, indict, lmod, infile, lmod0, gorder, pbar, seen, clock, rcopy>>

\* acceptall: master and slave name the same dataset; nothing is merged
AcceptAllSame ==
    /\ pc = "merge"
    /\ pc' = "same"
    /\ UNCHANGED <<datmaster, datslave, master0, slave0, liths, emod, indict, lmod, infile, lmod0, gorder, pbar, seen, clock, rcopy>>

NextMerge == AcceptAll \/ AcceptAllSame

SpecMerge == InitMerge /\ [][NextMerge]_vars


-----------------------------------------------------------------------------
(* Claims about the merge of the voxel grids *)

\* the grid of input model m0 resized onto the grid of the merged model d
ResizedTo(m0, d) ==
    Update(m0, d.numx, d.numy, d.numz, d.xrange[1], d.yrange[2], d.zrange[2], d.dxy, d.d_z).lith_index

\* the names catalogue cat gives index v
NamesAt(cat, v) == { l \in DOMAIN cat : cat[l].lith_index = v }

\* the name of the lithology a cell of the merged grid comes from: master's
\* where master's resized grid holds a lithology, slave's elsewhere
SourceNames(c) ==
    LET mv == ResizedTo(master0, datmaster)[c]
        sv == ResizedTo(slave0, datmaster)[c]
    IN  IF mv # 0 THEN NamesAt(master0.lith_list, mv) ELSE NamesAt(slave0.lith_list, sv)

\* master and slave use one index for two different lithology names
IndexCollision ==
    \E a \in DOMAIN master0.lith_list, b \in DOMAIN slave0.lith_list :
        a # b /\ master0.lith_list[a].lith_index = slave0.lith_list[b].lith_index
              /\ master0.lith_list[a].lith_index # 0

\* C2: when master and slave use the same lith_index for different names, every
\* cell of the merged grid holds the index the merged catalogue gives to the
\* name the cell had in its source grid, and to no other name.
C2_NoIndexCollision ==
    (pc = "done" /\ IndexCollision) =>
        \A c \in DOMAIN datmaster.lith_index :
            NamesAt(datmaster.lith_list, datmaster.lith_index[c]) = SourceNames(c)

\* a finished merge with colliding indices where a master cell of A and a slave
\* cell of C, both numbered 1 in their models, are in the merged grid
C2_Witness ==
    /\ pc = "done" /\ IndexCollision
    /\ master0.lith_list["A"].lith_index = 1
    /\ "C" \in DOMAIN slave0.lith_list /\ slave0.lith_list["C"].lith_index = 1
    /\ \E c, e \in DOMAIN datmaster.lith_index :
          /\ SourceNames(c) = {"A"} /\ SourceNames(e) = {"C"}
          /\ ResizedTo(master0, datmaster)[c] = 1 /\ ResizedTo(slave0, datmaster)[e] = 1
          /\ datmaster.lith_index[c] # datmaster.lith_index[e]

\* the final index of the lithology that model m0 numbered v, read from the
\* relabelled catalogue of that model
FinalIndex(m0, d, v) ==
    IF v = 0 THEN 0 ELSE d.lith_list[CHOOSE l \in NamesAt(m0.lith_list, v) : TRUE].lith_index

\* C3: a cell of the union grid carries master's lithology where master's
\* resized grid is not background, and slave's cell only where it is background.
C3_MasterPrecedence ==
    pc \in {"done", "error"} =>
        \A c \in DOMAIN datmaster.lith_index :
            LET mv == ResizedTo(master0, datmaster)[c]
                sv == ResizedTo(slave0, datmaster)[c]
            IN  datmaster.lith_index[c] =
                    IF mv # 0 THEN FinalIndex(master0, datmaster, mv)
                    ELSE FinalIndex(slave0, datslave, sv)

\* a finished merge with a cell where both hold a lithology (master's is kept)
\* and a cell where master is background and slave's lithology fills it
C3_Witness ==
    /\ pc = "done"
    /\ \E c, e \in DOMAIN datmaster.lith_index :
          /\ ResizedTo(master0, datmaster)[c] # 0 /\ ResizedTo(slave0, datmaster)[c] # 0
          /\ SourceNames(c) = {"A"} /\ NamesAt(slave0.lith_list, ResizedTo(slave0, datmaster)[c]) = {"C"}
          /\ ResizedTo(master0, datmaster)[e] = 0 /\ ResizedTo(slave0, datmaster)[e] # 0
          /\ datmaster.lith_index[e] # 0

\* a range contains another
Contains(big, small) == big[1] <= small[1] /\ small[2] <= big[2]

\* C4: the ranges of the merged grid contain the ranges of both inputs.
C4_ExtentContainsInputs ==
    pc \in {"done", "error"} =>
        /\ Contains(datmaster.xrange, master0.xrange) /\ Contains(datmaster.xrange, slave0.xrange)
        /\ Contains(datmaster.yrange, master0.yrange) /\ Contains(datmaster.yrange, slave0.yrange)
        /\ Contains(datmaster.zrange, master0.zrange) /\ Contains(datmaster.zrange, slave0.zrange)

\* the indices of a catalogue
CatIndices(cat) == { cat[l].lith_index : l \in DOMAIN cat }

SlaveOnly == (DOMAIN slave0.lith_list) \ (DOMAIN master0.lith_list)

\* C12: for every lithology only slave held, master's catalogue holds it after
\* the merge with slave's GeoData under the final index, and master's colour
\* table holds at that final index the colour slave's table had for the
\* lithology under its original slave index.
C12_SlaveOnlyCopied ==
    pc = "done" =>
        \A l \in SlaveOnly :
            /\ l \in DOMAIN datmaster.lith_list
            /\ datmaster.lith_list[l] = datslave.lith_list[l]
            /\ datmaster.lith_list[l] =
                  [slave0.lith_list[l] EXCEPT !.lith_index = datslave.lith_list[l].lith_index]
            /\ datmaster.lith_list[l].lith_index \in DOMAIN datmaster.mlut
            /\ datmaster.mlut[datmaster.lith_list[l].lith_index] =
                  slave0.mlut[slave0.lith_list[l].lith_index]

\* the catalogue half of C12 alone: the entry and its final index
C12_EntryCopied ==
    pc = "done" =>
        \A l \in SlaveOnly :
            /\ l \in DOMAIN datmaster.lith_list
            /\ datmaster.lith_list[l] =
                  [slave0.lith_list[l] EXCEPT !.lith_index = datslave.lith_list[l].lith_index]

\* what a merge by names shows of model m: the names of the catalogue and the
\* names each cell's index stands for
NameView(m) ==
    [names |-> DOMAIN m.lith_list,
     cells |-> [c \in DOMAIN m.lith_index |-> NamesAt(m.lith_list, m.lith_index[c])]]

\* the orders in which all_liths and datslave.lith_list may be enumerated
AllOrders == Perms(((DOMAIN master0.lith_list) \cup (DOMAIN slave0.lith_list)) \ {"Background"})
SlaveOrders == Perms(SlaveOnly)

\* C13: the lithology name of every merged cell and the set of names of the
\* merged catalogue are the same whatever the order in which the names of the
\* two catalogues are enumerated.
C13_OrderIndependent ==
    pc \in {"done", "error"} =>
        \A o \in AllOrders, p \in SlaveOrders :
            NameView(AcceptAllResult(master0, slave0, o, p).m) = NameView(datmaster)

\* C13 among the merges that run to their end
C13_CompletedOrderIndependent ==
    pc = "done" =>
        \A o \in AllOrders, p \in SlaveOrders :
            AcceptAllResult(master0, slave0, o, p).err
            \/ NameView(AcceptAllResult(master0, slave0, o, p).m) = NameView(datmaster)


-----------------------------------------------------------------------------
(* The merge of models on different lattices or without a Background *)

\* model m with layers of thickness d_z
WithDz(m, d_z) == [m EXCEPT !.d_z = d_z, !.zrange = <<m.zrange[1], m.zrange[1] + m.numz*d_z>>]

\* model m with its catalogue as an importer that stores no 'Background' leaves it
WithBackground(m, has) ==
    IF has THEN m
    ELSE [m EXCEPT !.lith_list = [l \in (DOMAIN m.lith_list) \ {"Background"} |-> m.lith_list[l]]]

\* master: two cells of size 2 x 2 x 2 along x; slave: two cells along x of
\* size sdxy, layers of thickness sdz, from soff; either with or without a
\* Background entry
InitIncompatible ==
    /\ pc = "merge"
    /\ liths = <<>>
    /\ \E sdxy \in {2, 4}, sdz \in {2, 4}, soff \in {0, 2}, mbg \in BOOLEAN, sbg \in BOOLEAN :
       \E scat \in Catalogues({"A", "C"}), ma \in 0..1, sa \in 0..1 :
          /\ datmaster = WithBackground(MkModel(1, 1, 0, 2, 2, [A |-> 1], Alternate(ma, 1), <<>>), mbg)
          /\ datslave = WithBackground(WithDz(MkModel(2, 1, soff, 2, sdxy, scat, Alternate(sa, 0), <<>>), sdz), sbg)
    /\ master0 = datmaster
    /\ slave0 = datslave
    /\ Idle

SpecIncompatible == InitIncompatible /\ [][NextMerge]_vars

\* the two models cannot be merged: their cell sizes differ or one of them has
\* no Background
Incompatible ==
    \/ master0.dxy # slave0.dxy
    \/ master0.d_z # slave0.d_z
    \/ "Background" \notin DOMAIN master0.lith_list
    \/ "Background" \notin DOMAIN slave0.lith_list

\* C14: acceptall on two models whose dxy or d_z differ, or one of which has no
\* Background, aborts and changes neither model.
C14_IncompatibleAborts ==
    (pc \in {"done", "error", "raised"} /\ Incompatible) =>
        (pc # "done" /\ datmaster = master0 /\ datslave = slave0)


-----------------------------------------------------------------------------
(* The merge of two models that carry a raster layer *)

\* number of columns of the input raster layers
MaxRCols == 2

\* the values of a valid raster cell, in hundredths: -1.0, 0, 0.05, 0.1, 3.0
MasterValues == {-100, 0, 5, 10, 300}
SlaveValues == {-100, 300}

\* a Data object of one row: cell i holds vals[i] and is masked where that is
\* the layer's nullvalue
MkData(tlx, tly, xdim, ydim, cols, vals, id) ==
    [data |-> [c \in RCells(1, cols) |-> vals[c[2]]],
     mask |-> [c \in RCells(1, cols) |-> vals[c[2]] = FillValue],
     cols |-> cols, rows |-> 1, xdim |-> xdim, ydim |-> ydim, tlx |-> tlx, tly |-> tly,
     wkt |-> "", nullvalue |-> FillValue, dataid |-> id]

\* master and slave are one voxel of size 2; slave lies on master's footprint
\* or beside it.  Both carry a DTM layer of one row of MaxRCols cells, 4 high
\* and 2 or 4 wide, whose top left corner is the model's; with cells 4 wide and
\* slave on master's footprint the union grid of the blend is a single cell.
InitBlend ==
    /\ pc = "merge"
    /\ liths = <<>>
    /\ \E soff \in {0, 2}, xdim \in {2, 4} :
       \E mvals \in [0..(MaxRCols-1) -> MasterValues \cup {FillValue}],
          svals \in [0..(MaxRCols-1) -> SlaveValues \cup {FillValue}] :
          /\ datmaster = MkModel(1, 1, 0, 1, 2, [A |-> 1], Alternate(1, 1),
                                 [l \in {"DTM Dataset"} |-> MkData(0, 2, xdim, 4, MaxRCols, mvals, "DTM Dataset")])
          /\ datslave = MkModel(2, 1, soff, 1, 2, [A |-> 1], Alternate(1, 1),
                                 [l \in {"DTM Dataset"} |-> MkData(soff, 2, xdim, 4, MaxRCols, svals, "DTM Dataset")])
    /\ master0 = datmaster
    /\ slave0 = datslave
    /\ Idle

SpecBlend == InitBlend /\ [][NextMerge]_vars

(* Claims about the blend of the raster layers *)

\* the two reprojected layers dat[0] and dat[1] of the blend of layer k, before
\* they are combined
BlendDat(k, m0, s0) ==
    LET m  == m0.griddata[k]
        xr == UnionRange(master0.xrange, slave0.xrange)
        yr == UnionRange(master0.yrange, slave0.yrange)
    IN  GmergeDat(s0.griddata[k], Doffset(s0.griddata[k]), m.wkt, xr[1], yr[2], m.xdim, m.ydim,
                  ((xr[2] - xr[1]) \div m.xdim) + 1, ((yr[2] - yr[1]) \div m.ydim) + 1)

\* C8: every cell of the blend takes master's reprojected value where master
\* is valid, slave's where master is masked and slave valid, and is masked
\* where both are masked, whatever the size of the union grid.
C8_CombineRule ==
    pc \in {"done", "error"} =>
        \A k \in DOMAIN datmaster.griddata :
            LET res == datmaster.griddata[k]
                d0  == BlendDat(k, master0, master0)
                d1  == BlendDat(k, master0, slave0)
            IN  \A c \in DOMAIN res.data :
                    /\ ~d0.mask[c] => (~res.mask[c] /\ res.data[c] = d0.data[c])
                    /\ (d0.mask[c] /\ ~d1.mask[c]) => (~res.mask[c] /\ res.data[c] = d1.data[c])
                    /\ (d0.mask[c] /\ d1.mask[c]) => res.mask[c]

\* the two input layers k lie on the same footprint
SameFootprint(k) ==
    LET m == master0.griddata[k]
        s == slave0.griddata[k]
    IN  /\ m.tlx = s.tlx /\ m.tly = s.tly /\ m.xdim = s.xdim /\ m.ydim = s.ydim
        /\ m.cols = s.cols /\ m.rows = s.rows

\* C9: on identical footprints every valid value of master is kept as it is,
\* whatever its sign or size, and every cell masked in master and valid in
\* slave gets slave's value.
C9_ValuesPreserved ==
    pc \in {"done", "error"} =>
        \A k \in DOMAIN datmaster.griddata :
            SameFootprint(k) =>
                \A c \in (DOMAIN master0.griddata[k].data) \cap (DOMAIN datmaster.griddata[k].data) :
                    LET m   == master0.griddata[k]
                        s   == slave0.griddata[k]
                        res == datmaster.griddata[k]
                    IN  /\ ~m.mask[c] => (~res.mask[c] /\ res.data[c] = m.data[c])
                        /\ (m.mask[c] /\ ~s.mask[c]) => (~res.mask[c] /\ res.data[c] = s.data[c])

\* C10: the merge leaves slave's extent, grid dimensions and the values, mask
\* and nullvalue of its raster layers as they were.
C10_SlaveReadOnly ==
    pc \in {"done", "error"} =>
        /\ datslave.xrange = slave0.xrange /\ datslave.yrange = slave0.yrange
        /\ datslave.zrange = slave0.zrange
        /\ datslave.numx = slave0.numx /\ datslave.numy = slave0.numy /\ datslave.numz = slave0.numz
        /\ \A k \in DOMAIN slave0.griddata :
              /\ datslave.griddata[k].data = slave0.griddata[k].data
              /\ datslave.griddata[k].mask = slave0.griddata[k].mask
              /\ datslave.griddata[k].nullvalue = slave0.griddata[k].nullvalue


-----------------------------------------------------------------------------
(* Merging models that carry several raster layers *)

\* the keys of the layers of the models: two that acceptall blends and one
\* that it does not
LayerKeys == {"DTM Dataset", "Gravity Regional", "Calculated Gravity"}

\* a layer of one row of two cells 2 wide that hold v; a layer named by bad
\* declares one column for its two cells
MkLayer(k, v, bad) ==
    [MkData(0, 2, 2, 4, 2, [c \in 0..1 |-> v], k) EXCEPT !.cols = IF k = bad THEN 1 ELSE 2]

\* master and slave are one voxel of size 2 on the same footprint; each carries
\* some of the layers, and at most one layer of each is ill-shaped
InitLayers ==
    /\ pc = "merge"
    /\ liths = <<>>
    /\ \E mkeys \in (SUBSET LayerKeys) \ {{}}, skeys \in SUBSET LayerKeys :
       \E mv \in {-100, 300, FillValue}, sv \in {-100, 300},
          mbad \in mkeys \cup {""}, sbad \in skeys \cup {""} :
          /\ datmaster = MkModel(1, 1, 0, 1, 2, [A |-> 1], Alternate(1, 1),
                                 [k \in mkeys |-> MkLayer(k, mv, mbad)])
          /\ datslave = MkModel(2, 1, 0, 1, 2, [A |-> 1], Alternate(1, 1),
                                 [k \in skeys |-> MkLayer(k, sv, sbad)])
    /\ master0 = datmaster
    /\ slave0 = datslave
    /\ Idle

SpecLayers == InitLayers /\ [][NextMerge]_vars

\* the five keys the merge is to blend
C11_Whitelist ==
    {"DTM Dataset", "Magnetic Dataset", "Gravity Dataset", "Study Area Dataset", "Gravity Regional"}

\* C11: acceptall leaves master with the layer keys it had; a layer whose key
\* is not one of the five, or that slave does not carry, is as it was; after a
\* merge that completes a layer of the five that slave carries is the blend.
C11_WhitelistOnly ==
    pc \in {"done", "error", "raised"} =>
        /\ DOMAIN datmaster.griddata = DOMAIN master0.griddata
        /\ \A k \in DOMAIN master0.griddata :
              /\ (k \notin C11_Whitelist \/ k \notin DOMAIN slave0.griddata)
                    => datmaster.griddata[k] = master0.griddata[k]
              /\ (pc = "done" /\ k \in C11_Whitelist /\ k \in DOMAIN slave0.griddata)
                    => datmaster.griddata[k] =
                          Gmerge(master0.griddata[k], slave0.griddata[k],
                                 UnionRange(master0.xrange, slave0.xrange),
                                 UnionRange(master0.yrange, slave0.yrange))

\* a completed merge of a master with a blended layer and a layer outside the
\* five that slave carries too, slave having a layer master lacks
C11_Witness ==
    /\ pc = "done"
    /\ DOMAIN master0.griddata = {"DTM Dataset", "Calculated Gravity"}
    /\ DOMAIN slave0.griddata = LayerKeys
    /\ datmaster.griddata["DTM Dataset"] # master0.griddata["DTM Dataset"]

\* a layer of the five that both models carry is ill-shaped in one of them
BlendFails ==
    \E k \in (DOMAIN master0.griddata) \cap (DOMAIN slave0.griddata) \cap C11_Whitelist :
        ShapeMismatch(master0.griddata[k]) \/ ShapeMismatch(slave0.griddata[k])

\* C16: when the blend of a layer fails, acceptall raises and master is as it
\* was before the call.
C16_FailedBlendAborts ==
    (pc \in {"done", "error", "raised"} /\ BlendFails) => (pc = "raised" /\ datmaster = master0)

-----------------------------------------------------------------------------
(* ExportMod3D.lmod2dict and ImportMod3D.dict2lmod (pre = '') *)

\* the model attributes lmod2dict writes under their own names, in its order
EncodeScalars ==
    <<"gregional", "ght", "mht", "numx", "numy", "numz", "dxy", "d_z", "lith_index",
      "xrange", "yrange", "zrange", "mlut", "griddata", "custprofx", "custprofy">>

\* the <<key suffix, GeoData attribute>> pairs lmod2dict writes for a lithology
EncodeFields ==
    << <<"_hintn", "hintn">>, <<"_finc", "finc">>, <<"_fdec", "fdec">>, <<"_zobsm", "zobsm">>,
       <<"_susc", "susc">>, <<"_mstrength", "mstrength">>, <<"_qratio", "qratio">>,
       <<"_minc", "minc">>, <<"_mdec", "mdec">>, <<"_density", "density">>,
       <<"_bdensity", "bdensity">>, <<"_lith_index", "lith_index">>, <<"_numx", "g_cols">>,
       <<"_numy", "g_rows">>, <<"_numz", "numz">>, <<"_dxy", "g_dxy">>, <<"_d_z", "d_z">>,
       <<"_zobsm", "zobsm">>, <<"_zobsg", "zobsg">>, <<"_x12", "x12">>, <<"_y12", "y12">>,
       <<"_z12", "z12">> >>

\* the <<GeoData attribute, key suffix>> pairs dict2lmod reads for a lithology
DecodeFields ==
    << <<"hintn", "_hintn">>, <<"finc", "_finc">>, <<"fdec", "_fdec">>, <<"zobsm", "_zobsm">>,
       <<"susc", "_susc">>, <<"mstrength", "_mstrength">>, <<"qratio", "_qratio">>,
       <<"minc", "_minc">>, <<"mdec", "_mdec">>, <<"density", "_density">>,
       <<"bdensity", "_bdensity">>, <<"lith_index", "_lith_index">>, <<"g_cols", "_numx">>,
       <<"g_rows", "_numy">>, <<"numz", "_numz">>, <<"g_dxy", "_dxy">>, <<"dxy", "_dxy">>,
       <<"d_z", "_d_z">>, <<"zobsm", "_zobsm">>, <<"zobsg", "_zobsg">> >>

\* the model attributes dict2lmod reads first, in its order
DecodeScalars == <<"gregional", "ght", "mht", "numx", "numy", "numz", "dxy", "d_z", "lith_index">>

\* outdict after the assignments of the model's own attributes
EncodeModel(d, m) ==
    LET written == {EncodeScalars[i] : i \in 1..Len(EncodeScalars)}
    IN  [k \in (DOMAIN d) \cup written |-> IF k \in written THEN m[k] ELSE d[k]]

\* outdict after the assignments of one lithology: key name+suffix holds the
\* attribute of the last pair that writes it
EncodeLith(d, name, g) ==
    LET pairs(k) == {i \in 1..Len(EncodeFields) : name \o EncodeFields[i][1] = k}
        written == {name \o EncodeFields[i][1] : i \in 1..Len(EncodeFields)}
    IN  [k \in (DOMAIN d) \cup written |->
            IF k \in written THEN g[EncodeFields[SetMax(pairs(k))][2]] ELSE d[k]]

RECURSIVE EncodeLiths(_, _, _, _)
EncodeLiths(d, m, keys, j) ==
    IF j > Len(keys) THEN d
    ELSE EncodeLiths(EncodeLith(d, keys[j], m.lith_list[keys[j]]), m, keys, j + 1)

\* lmod2dict(outdict = {}): the record of model m, keys being
\* list(lmod.lith_list.keys())
Lmod2Dict(m, keys) ==
    EncodeLiths(Put(EncodeModel(<<>>, m), "lithkeys", keys), m, keys, 1)

\* a step of dict2lmod: attribute attr of the model takes indict[key]; a
\* missing key raises KeyError and the steps after it are not run
RECURSIVE DecodeModel(_, _, _, _)
DecodeModel(st, d, keys, i) ==
    IF i > Len(keys) \/ st.err THEN st
    ELSE IF keys[i] \notin DOMAIN d THEN [st EXCEPT !.err = TRUE]
    ELSE DecodeModel([st EXCEPT !.lm[keys[i]] = d[keys[i]]], d, keys, i + 1)

\* the legacy loop: a layer without dataid gets '', a bandid replaces an empty
\* dataid and is deleted
LegacyIds(layer) ==
    LET a == IF "dataid" \in DOMAIN layer THEN layer ELSE Put(layer, "dataid", "")
        b == IF "bandid" \in DOMAIN a /\ a.dataid = "" THEN [a EXCEPT !.dataid = a.bandid] ELSE a
    IN  [f \in (DOMAIN b) \ {"bandid"} |-> b[f]]

\* the loop "for i in lmod.griddata" that sets wktfin, over the layers in the
\* order keys: wktfin after layer i
RECURSIVE WktFin(_, _, _, _)
WktFin(grids, keys, i, wktfin) ==
    IF i > Len(keys) THEN wktfin
    ELSE LET wkt == grids[keys[i]].wkt
         IN  WktFin(grids, keys, i + 1, IF wkt # "" /\ wkt # None THEN wkt ELSE wktfin)

\* the layers after the legacy loop and the wkt backfill
DecodeGrids(grids, keys) ==
    LET g1 == [k \in DOMAIN grids |-> LegacyIds(grids[k])]
        wktfin == WktFin(g1, keys, 1, None)
    IN  IF wktfin = None THEN g1
        ELSE [k \in DOMAIN g1 |->
                IF g1[k].wkt = "" \/ g1[k].wkt = None THEN [g1[k] EXCEPT !.wkt = wktfin] ELSE g1[k]]

\* the attributes of one lithology, from pair i on
RECURSIVE DecodeLith(_, _, _, _)
DecodeLith(st, d, name, i) ==
    IF i > Len(DecodeFields) THEN
        [st EXCEPT !.lm.lith_list[name] = SetXyz12([st.lm.lith_list[name] EXCEPT !.modified = TRUE])]
    ELSE IF name \o DecodeFields[i][2] \notin DOMAIN d THEN [st EXCEPT !.err = TRUE]
    ELSE DecodeLith([st EXCEPT !.lm.lith_list[name][DecodeFields[i][1]] = d[name \o DecodeFields[i][2]]],
                    d, name, i + 1)

\* the loop "for itxt in lithkeys", from key j on
RECURSIVE DecodeLiths(_, _, _, _)
DecodeLiths(st, d, keys, j) ==
    IF j > Len(keys) \/ st.err THEN st
    ELSE LET s1 == IF keys[j] # "Background"
                   THEN [st EXCEPT !.lm.lith_list = Put(st.lm.lith_list, keys[j], GeoData(10, 10, 10, 10, 10))]
                   ELSE st
         IN  DecodeLiths(DecodeLith(s1, d, keys[j], 1), d, keys, j + 1)

\* a faulty variant of SynthBackground: no Background is created
SynthBackgroundNone(lith_list) == lith_list

\* lmod.lith_list['Background'] = grvmag3d.GeoData(self.parent)
SynthBackground(lith_list) == Put(lith_list, "Background", GeoData(10, 10, 10, 10, 10))

\* dict2lmod(indict) on the model lm, the layers of the record being
\* enumerated in the order gkeys: the model as the call leaves it, and whether
\* it raised KeyError
Dict2Lmod(lm, d, gkeys) ==
    IF "lithkeys" \notin DOMAIN d THEN [lm |-> lm, err |-> TRUE]
    ELSE
    LET s1 == DecodeModel([lm |-> lm, err |-> FALSE], d, DecodeScalars, 1)
        s2 == IF s1.err THEN s1
              ELSE DecodeModel([s1 EXCEPT !.lm.curprof = 0, !.lm.curlayer = 0], d,
                               <<"xrange", "yrange", "zrange">>, 1)
        s3 == IF s2.err THEN s2
              ELSE [s2 EXCEPT
                     !.lm.custprofx = IF "custprofx" \in DOMAIN d THEN d["custprofx"]
                                      ELSE (0 :> <<s2.lm.xrange[1], s2.lm.xrange[2]>>),
                     !.lm.custprofy = IF "custprofy" \in DOMAIN d THEN d["custprofy"]
                                      ELSE (0 :> <<s2.lm.yrange[1], s2.lm.yrange[1]>>)]
        s4 == DecodeModel(s3, d, <<"mlut", "griddata">>, 1)
        s5 == IF s4.err THEN s4
              ELSE [s4 EXCEPT !.lm.griddata = DecodeGrids(s4.lm.griddata, gkeys),
                              !.lm.lith_list = SynthBackground(s4.lm.lith_list)]
    IN  DecodeLiths(s5, d, d["lithkeys"], 1)


-----------------------------------------------------------------------------
(* Saving a model and loading it again *)

\* LithModel(): the model of a new ImportMod3D, its catalogue and layers empty
LithModel ==
    [numx |-> 0, numy |-> 0, numz |-> 0, dxy |-> 0, d_z |-> 0,
     xrange |-> <<0, 0>>, yrange |-> <<0, 0>>, zrange |-> <<0, 0>>,
     lith_index |-> <<>>, lith_list |-> <<>>,
     mlut |-> (0 :> <<170, 125, 90>> @@ 1 :> <<255, 255, 0>>), griddata |-> <<>>,
     gregional |-> 100, ght |-> 0, mht |-> 100, curprof |-> 0, curlayer |-> 0,
     custprofx |-> <<>>, custprofy |-> <<>>]

\* the spatial references of the two layers of a saved model
LayerWkts == {<<"", "">>, <<"W1", "">>, <<"", "W2">>, <<"W1", "W2">>, <<"W1", "W1">>}

\* a model to save: one or two lithologies beside Background (or no Background
\* entry), lithology A authored at its own cell size dxy, two raster layers
InitCodec ==
    /\ pc = "encode"
    /\ \E cat \in {[A |-> 1], [A |-> 1, B |-> 2], [A |-> 2, B |-> 1]}, bg \in BOOLEAN,
          adxy \in {2, 4}, wkts \in LayerWkts, prof \in 0..1, b \in 0..MaxIndex :
          LET m == MkModel(1, 1, 0, MaxCols, 2, cat, Alternate(1, IF b \in GridValues(cat) THEN b ELSE 0),
                           [k \in {"DTM Dataset", "Magnetic Dataset"} |->
                              [MkData(0, 2, 2, 4, 1, <<>> @@ (0 :> (IF k = "DTM Dataset" THEN 300 ELSE FillValue)), k)
                                  EXCEPT !.wkt = IF k = "DTM Dataset" THEN wkts[1] ELSE wkts[2]]])
          IN  emod = [m EXCEPT !.lith_list = [l \in (DOMAIN m.lith_list) \ (IF bg THEN {} ELSE {"Background"}) |->
                                                 IF l = "A" THEN [m.lith_list[l] EXCEPT !.dxy = adxy]
                                                 ELSE m.lith_list[l]],
                               !.curprof = prof,
                               !.custprofx = (0 :> <<0, 4>>), !.custprofy = (0 :> <<0, 0>>)]
    /\ indict = <<>>
    /\ lmod = LithModel
    /\ datmaster = None /\ datslave = None /\ master0 = None /\ slave0 = None /\ liths = <<>>
    /\ infile = None
    /\ lmod0 = None /\ gorder = None /\ NoBar

\* ExportMod3D.lmod2dict: the record of the model
Encode ==
    /\ pc = "encode"
    /\ \E keys \in Perms(DOMAIN emod.lith_list) : indict' = Lmod2Dict(emod, keys)
    /\ pc' = "decode"
    /\ UNCHANGED <<datmaster, datslave, master0, slave0, liths, emod, lmod, infile, lmod0, gorder, pbar, seen, clock, rcopy>>

\* ImportMod3D.dict2lmod on the record
Decode ==
    /\ pc = "decode"
    /\ \E gkeys \in Perms(DOMAIN indict["griddata"]) :
          LET r == Dict2Lmod(lmod, indict, gkeys)
          IN  /\ lmod' = r.lm
              /\ pc' = IF r.err THEN "keyerror" ELSE "decoded"
    /\ UNCHANGED <<datmaster, datslave, master0, slave0, liths, emod, indict, infile, lmod0, gorder, pbar, seen, clock, rcopy>>

NextCodec == Encode \/ Decode

SpecCodec == InitCodec /\ [][NextCodec]_vars

\* the attributes of a model the record carries
RoundTripFields ==
    {"gregional", "ght", "mht", "numx", "numy", "numz", "dxy", "d_z", "lith_index",
     "xrange", "yrange", "zrange", "mlut", "griddata", "custprofx", "custprofy"}

\* C1: decoding the record of a model gives the model back: every scalar, the
\* grid, the ranges, the colour table, the raster layers, the names of the
\* catalogue and every attribute of every lithology (dxy as well as g_dxy).
C1_RoundTrip ==
    pc = "decoded" =>
        /\ \A f \in RoundTripFields : lmod[f] = emod[f]
        /\ DOMAIN lmod.lith_list = DOMAIN emod.lith_list
        /\ \A l \in (DOMAIN lmod.lith_list) \cap (DOMAIN emod.lith_list) :
              lmod.lith_list[l] = emod.lith_list[l]

\* the names the record's lithkeys list
LithKeyNames == { indict["lithkeys"][i] : i \in DOMAIN indict["lithkeys"] }

\* C27: after dict2lmod on a model whose catalogue was cleared the names of the
\* catalogue are those of lithkeys and 'Background'; Background carries the
\* stored fields when lithkeys names it and is a default GeoData otherwise.
C27_BackgroundSynthesized ==
    pc = "decoded" =>
        /\ DOMAIN lmod.lith_list = LithKeyNames \cup {"Background"}
        /\ IF "Background" \in LithKeyNames
           THEN \A i \in DOMAIN DecodeFields :
                   lmod.lith_list["Background"][DecodeFields[i][1]] = indict["Background" \o DecodeFields[i][2]]
           ELSE lmod.lith_list["Background"] = GeoData(10, 10, 10, 10, 10)

\* a decoded record whose lithkeys name two lithologies and no Background,
\* saved from a model whose lithologies differ from the default GeoData
C27_Witness ==
    /\ pc = "decoded"
    /\ LithKeyNames = {"A", "B"}
    /\ lmod.lith_list["A"] # GeoData(10, 10, 10, 10, 10)
    /\ "Background" \in DOMAIN lmod.lith_list

\* a decoded record whose lithkeys name Background, stored with an index and
\* a grid size that the default GeoData does not have
C27_WitnessNamed ==
    /\ pc = "decoded"
    /\ "Background" \in LithKeyNames
    /\ lmod.lith_list["Background"].g_cols # 10
    /\ lmod.lith_list["Background"].susc = indict["Background_susc"]

-----------------------------------------------------------------------------
(* ImportMod3D.import_ascii_xyz_model and ImportMod3D.import_leapfrog_csv *)

\* the labels of the input files, in the order np.unique sorts them
LabelOrder == <<"Amphibolite", "Background", "blank", "dyke", "granodiorite">>

\* the number of characters of a label
LabelLen == [Amphibolite |-> 11, Background |-> 10, blank |-> 5, dyke |-> 4, granodiorite |-> 12]

\* the elements of a sequence
Range(s) == { s[i] : i \in DOMAIN s }

\* column k of the rows of a file
Column(rows, k) == [i \in DOMAIN rows |-> rows[i][k]]

\* np.unique(label): the distinct labels, sorted
UniqueLabels(label) == SelectSeq(LabelOrder, LAMBDA l : l \in Range(label))

\* np.unique(x): the distinct coordinates, ascending
Unique(x) ==
    LET S == Range(x)
    IN  [n \in 1..Cardinality(S) |-> CHOOSE v \in S : Cardinality({w \in S : w <= v}) = n]

\* x[np.sort(np.unique(x, return_index=True)[1])]: the distinct coordinates in
\* the order the rows first show them
FirstSeen(x) ==
    LET keep == { i \in DOMAIN x : \A j \in 1..(i-1) : x[j] # x[i] }
    IN  [n \in 1..Cardinality(keep) |->
            x[CHOOSE i \in keep : Cardinality({j \in keep : j <= i}) = n]]

\* np.diff
Diff(u) == [i \in 1..(Len(u)-1) |-> u[i+1] - u[i]]

\* "if dx_u[0] < 0: dx_u *= -1"
SignNorm(d) == IF d[1] < 0 THEN [i \in DOMAIN d |-> -d[i]] ELSE d

\* the cell size import_ascii_xyz_model derives for an axis of at least two
\* distinct coordinates
AxisCell(x) == SetMax(Range(SignNorm(Diff(FirstSeen(x)))))

\* the value of a cell of a new grid that no sample has written
Unset == -1

\* a colour drawn with np.random.randint for index i
RandomColour(i) == <<"random", i>>

\* LithModel.update(numx, numy, numz, xrange[0], yrange[1], zrange[1], dxy, d_z)
\* on a model whose lith_index is None: a new grid with no cell written, the
\* ranges spanning numx, numy, numz cells from the upper top left corner
UpdateNew(m) ==
    [m EXCEPT !.xrange = <<m.xrange[1], m.xrange[1] + m.numx*m.dxy>>,
              !.yrange = <<m.yrange[2] - m.numy*m.dxy, m.yrange[2]>>,
              !.zrange = <<m.zrange[2] - m.numz*m.d_z, m.zrange[2]>>,
              !.lith_index = [c \in Cells(m.numx, m.numy, m.numz) |-> Unset]]

\* [min - cell/2, max + cell/2]
PaddedRange(x, cell) == <<SetMin(Range(x)) - cell \div 2, SetMax(Range(x)) + cell \div 2>>

\* the cell <<col, row, layer>> the scatter loops compute for a row
SampleCell(m, row) ==
    <<TruncDiv(row[1] - m.xrange[1], m.dxy),
      TruncDiv(m.yrange[2] - row[2], m.dxy),
      TruncDiv(m.zrange[2] - row[3], m.d_z)>>

\* numpy indexing: an index in -n..-1 counts from the end
WrapIndex(i, n) == IF i < 0 /\ i >= -n THEN i + n ELSE i

\* the scatter loop from row i on: lith_index[col, row, layer] takes the index
\* of the row's lithology (Background's for the label bglabel); KeyError for a
\* name the catalogue lacks, IndexError outside the grid; with a cell size of 0
\* the quotient is inf or nan and int() raises
RECURSIVE Scatter(_, _, _, _)
Scatter(st, rows, i, bglabel) ==
    IF i > Len(rows) \/ st.err # "" THEN st
    ELSE IF st.lm.dxy = 0 \/ st.lm.d_z = 0 THEN [st EXCEPT !.err = "OverflowError"]
    ELSE LET m == st.lm
             c == SampleCell(m, rows[i])
             w == <<WrapIndex(c[1], m.numx), WrapIndex(c[2], m.numy), WrapIndex(c[3], m.numz)>>
             name == IF rows[i][4] = bglabel THEN "Background" ELSE rows[i][4]
         IN  IF name \notin DOMAIN m.lith_list THEN [st EXCEPT !.err = "KeyError"]
             ELSE IF w \notin DOMAIN m.lith_index THEN [st EXCEPT !.err = "IndexError"]
             ELSE Scatter([st EXCEPT !.lm.lith_index[w] = m.lith_list[name].lith_index],
                          rows, i + 1, bglabel)


\* the loop "for itxt in labelu" of import_ascii_xyz_model, from label i on
RECURSIVE LithLoopAscii(_, _, _)
LithLoopAscii(m, labelu, i) ==
    IF i > Len(labelu) THEN m
    ELSE LET lindx == i
             geo == [GeoData(m.numx, m.numy, m.numz, m.dxy, m.d_z) EXCEPT !.lith_index = lindx]
         IN  LithLoopAscii([m EXCEPT !.mlut = Put(@, lindx, RandomColour(lindx)),
                                     !.lith_list = Put(@, labelu[i], SetXyz12(geo))],
                           labelu, i + 1)

\* a faulty variant of NumCellsPadded: int(np.ptp(range)/cell)
NumCellsTight(range, cell) == TruncDiv(range[2] - range[1], cell)

\* int(np.ptp(range)/cell + 1)
NumCellsPadded(range, cell) == TruncDiv((range[2] - range[1]) + cell, cell)

\* import_ascii_xyz_model on the rows <<x, y, z, label>> of a file: the model
\* as the call leaves it and the exception it met ("" for none)
ImportAsciiXyzModel(lm, rows) ==
    LET x == Column(rows, 1)
        y == Column(rows, 2)
        z == Column(rows, 3)
        labelu == UniqueLabels(Column(rows, 4))
    IN  IF Len(FirstSeen(x)) < 2 \/ Len(FirstSeen(y)) < 2 \/ Len(FirstSeen(z)) < 2
        THEN [lm |-> lm, err |-> "IndexError"]
        ELSE
        LET dxy == Min2(AxisCell(x), AxisCell(y))
            d_z == AxisCell(z)
            xr == PaddedRange(x, dxy)
            yr == PaddedRange(y, dxy)
            zr == PaddedRange(z, d_z)
            m1 == [lm EXCEPT !.dxy = dxy, !.d_z = d_z, !.curprof = 0, !.curlayer = 0,
                             !.xrange = xr, !.yrange = yr, !.zrange = zr,
                             !.numx = NumCellsPadded(xr, dxy),
                             !.numy = NumCellsPadded(yr, dxy),
                             !.numz = NumCellsPadded(zr, d_z)]
            m2 == [m1 EXCEPT !.lith_list = [l \in (DOMAIN @) \ {"Generic 1"} |-> @[l]]]
            m3 == UpdateNew(LithLoopAscii(m2, labelu, 1))
        IN  Scatter([lm |-> m3, err |-> ""], rows, 1, "")

\* labelu[labelu == 'blank'] = 'Background' on an array of strings of width
\* chars: numpy keeps the first width characters of the name (the labels here
\* give 'blank' a width of 5 or of 10 and more)
StoredBackground(width) == IF width >= 10 THEN "Background" ELSE "Backg"

\* the loop "for itxt in labelu" of import_leapfrog_csv, from label i on
RECURSIVE LithLoopLeapfrog(_, _, _)
LithLoopLeapfrog(m, labelu, i) ==
    IF i > Len(labelu) THEN m
    ELSE LET lindx == i
             index == IF labelu[i] = "Background" THEN 0 ELSE lindx
             geo == [GeoData(m.numx, m.numy, m.numz, m.dxy, m.d_z) EXCEPT !.lith_index = index]
         IN  LithLoopLeapfrog([m EXCEPT !.mlut = Put(@, index, RandomColour(index)),
                                        !.lith_list = Put(@, labelu[i], SetXyz12(geo))],
                              labelu, i + 1)

\* import_leapfrog_csv on the rows <<x, y, z, label>> of a block model whose
\* first row declares the cell sizes xcell, ycell, zcell
ImportLeapfrogCsv(lm, rows, xcell, ycell, zcell) ==
    LET x == Column(rows, 1)
        y == Column(rows, 2)
        z == Column(rows, 3)
        label == Column(rows, 4)
        width == SetMax({ LabelLen[l] : l \in Range(label) })
        sorted == UniqueLabels(label)
        labelu == [i \in DOMAIN sorted |->
                      IF sorted[i] = "blank" THEN StoredBackground(width) ELSE sorted[i]]
        dxy == Max2(xcell, ycell)
        m1 == [lm EXCEPT !.numx = Len(Unique(x)), !.numy = Len(Unique(y)), !.numz = Len(Unique(z)),
                         !.dxy = dxy, !.d_z = zcell, !.curprof = 0, !.curlayer = 0,
                         !.xrange = PaddedRange(x, dxy), !.yrange = PaddedRange(y, dxy),
                         !.zrange = PaddedRange(z, zcell)]
        m2 == UpdateNew(LithLoopLeapfrog(m1, labelu, 1))
    IN  Scatter([lm |-> m2, err |-> ""], rows, 1, "blank")

\* settings(): "Reset Variables"
ResetVariables(lm) == [lm EXCEPT !.griddata = <<>>, !.lith_list = <<>>]


-----------------------------------------------------------------------------
(* Importing a file *)

\* the most distinct x coordinates of a file
MaxPts == 3

\* sample coordinates (even, so that half a cell is a whole number)
XSets == { S \in SUBSET {0, 2, 4, 6} : Cardinality(S) >= 1 /\ Cardinality(S) <= MaxPts }
YSets == { {0}, {0, 2}, {0, 4} }
ZSets == { {0}, {0, 2} }

\* the rows of a file that lists the points xo x yo x zo, x slowest, in the
\* orders xo, yo, zo, the label of a point being lab[its x]
Rows(xo, yo, zo, lab) ==
    [n \in 1..(Len(xo)*Len(yo)*Len(zo)) |->
        LET ix == ((n-1) \div (Len(yo)*Len(zo))) + 1
            iy == (((n-1) \div Len(zo)) % Len(yo)) + 1
            iz == ((n-1) % Len(zo)) + 1
        IN  <<xo[ix], yo[iy], zo[iz], lab[xo[ix]]>>]

InitImport ==
    /\ pc = "import"
    /\ \E xs \in XSets, ys \in YSets, zs \in ZSets, a \in Range(LabelOrder), b \in Range(LabelOrder),
          kind \in {"xyz", "leapfrog"}, xcell \in {2, 4}, ycell \in {2, 4} :
          \E xo \in Perms(xs), yo \in Perms(ys), zo \in Perms(zs) :
             infile = [kind |-> kind,
                       rows |-> Rows(xo, yo, zo, [v \in xs |-> Alternate(a, b)[v \div 2]]),
                       xcell |-> IF kind = "leapfrog" THEN xcell ELSE 0,
                       ycell |-> IF kind = "leapfrog" THEN ycell ELSE 0,
                       zcell |-> IF kind = "leapfrog" THEN 2 ELSE 0]
    /\ lmod = LithModel
    /\ emod = None /\ indict = None
    /\ datmaster = None /\ datslave = None /\ master0 = None /\ slave0 = None /\ liths = <<>>
    /\ lmod0 = None /\ gorder = None /\ NoBar

\* settings() with the filter 'x,y,z,label (*.csv)' or 'x,y,z,label (*.txt)'
SettingsAsciiXyz ==
    /\ pc = "import" /\ infile.kind = "xyz"
    /\ LET r == ImportAsciiXyzModel(ResetVariables(lmod), infile.rows)
       IN  /\ lmod' = r.lm
           /\ pc' = IF r.err = "" THEN "imported"
                    ELSE IF r.lm.lith_index = <<>> THEN "raised" ELSE "pdb"
    /\ UNCHANGED <<datmaster, datslave, master0, slave0, liths, emod, indict, infile, lmod0, gorder, pbar, seen, clock, rcopy>>

\* settings() with the filter 'Leapfrog Block Model (*.csv)'
SettingsLeapfrog ==
    /\ pc = "import" /\ infile.kind = "leapfrog"
    /\ LET r == ImportLeapfrogCsv(ResetVariables(lmod), infile.rows,
                                  infile.xcell, infile.ycell, infile.zcell)
       IN  /\ lmod' = r.lm
           /\ pc' = IF r.err = "" THEN "imported" ELSE "raised"
    /\ UNCHANGED <<datmaster, datslave, master0, slave0, liths, emod, indict, infile, lmod0, gorder, pbar, seen, clock, rcopy>>

NextImport == SettingsAsciiXyz \/ SettingsLeapfrog

SpecImport == InitImport /\ [][NextImport]_vars

\* the cells the scatter loop of the finished import wrote
Touched ==
    { <<WrapIndex(SampleCell(lmod, infile.rows[i])[1], lmod.numx),
        WrapIndex(SampleCell(lmod, infile.rows[i])[2], lmod.numy),
        WrapIndex(SampleCell(lmod, infile.rows[i])[3], lmod.numz)>> : i \in DOMAIN infile.rows }

\* the indices of the catalogue of the imported model
ImportedIndices == { lmod.lith_list[l].lith_index : l \in DOMAIN lmod.lith_list }

\* C6: after an import the catalogue's indices are exactly 0..N for its N
\* lithologies beside Background, Background is there with index 0, no two
\* names share an index, and every cell written holds a catalogue index.
C6_IndexUniqueAfterImport ==
    pc = "imported" =>
        /\ "Background" \in DOMAIN lmod.lith_list
        /\ lmod.lith_list["Background"].lith_index = 0
        /\ ImportedIndices = 0..(Cardinality(DOMAIN lmod.lith_list) - 1)
        /\ \A l1, l2 \in DOMAIN lmod.lith_list :
              lmod.lith_list[l1].lith_index = lmod.lith_list[l2].lith_index => l1 = l2
        /\ \A c \in Touched : lmod.lith_index[c] \in ImportedIndices

\* the samples of the file form an exact lattice of spacing s on every axis
RegularLattice(s) ==
    \A k \in 1..3 :
        LET u == Unique(Column(infile.rows, k))
        IN  Len(u) >= 2 /\ \A i \in 1..(Len(u)-1) : u[i+1] - u[i] = s

\* C7: on an exact lattice of spacing s import_ascii_xyz_model gives
\* numx = (xmax-xmin)/s + 1 (numy and numz alike), puts every sample in a cell
\* of its own and leaves no cell of the grid unwritten.
C7_GridSnapping ==
    \A s \in {2, 4} :
        (pc = "imported" /\ infile.kind = "xyz" /\ RegularLattice(s)) =>
            LET span(k) == SetMax(Range(Column(infile.rows, k))) - SetMin(Range(Column(infile.rows, k)))
            IN  /\ lmod.numx = span(1) \div s + 1
                /\ lmod.numy = span(2) \div s + 1
                /\ lmod.numz = span(3) \div s + 1
                /\ Cardinality(Touched) = Len(infile.rows)
                /\ Touched = Cells(lmod.numx, lmod.numy, lmod.numz)

\* the cell the scatter loop of the finished import wrote for row i
CellOf(i) ==
    <<WrapIndex(SampleCell(lmod, infile.rows[i])[1], lmod.numx),
      WrapIndex(SampleCell(lmod, infile.rows[i])[2], lmod.numy),
      WrapIndex(SampleCell(lmod, infile.rows[i])[3], lmod.numz)>>

\* the rows of the file labelled 'blank' whose cell no row with another label shares
BlankRows ==
    { i \in DOMAIN infile.rows :
        /\ infile.rows[i][4] = "blank"
        /\ \A j \in DOMAIN infile.rows : CellOf(j) = CellOf(i) => infile.rows[j][4] = "blank" }

\* C21: in both importers a sample labelled 'blank' writes index 0, the index
\* of Background, into its cell, and 'blank' gets no lithology index of its own.
C21_BlankIsBackground ==
    pc = "imported" =>
        /\ \A i \in BlankRows : lmod.lith_index[CellOf(i)] = 0
        /\ \A l \in DOMAIN lmod.lith_list : l \in {"blank", "Backg"} => lmod.lith_list[l].lith_index = 0

\* C21 for import_leapfrog_csv alone
C21_BlankIsBackgroundLeapfrog ==
    (pc = "imported" /\ infile.kind = "leapfrog") =>
        /\ \A i \in BlankRows : lmod.lith_index[CellOf(i)] = 0
        /\ \A l \in DOMAIN lmod.lith_list : l \in {"blank", "Backg"} => lmod.lith_list[l].lith_index = 0


\* the largest difference between neighbours of the sorted distinct values of x
SortedCell(x) == SetMax(Range(Diff(Unique(x))))

\* C22: in both importers dxy is the smaller of the x and y cell sizes and d_z
\* the z cell size (the declared sizes of a block model, the derived ones of
\* an x,y,z,label file).
C22_FinerHorizontalCell ==
    pc = "imported" =>
        IF infile.kind = "leapfrog"
        THEN lmod.dxy = Min2(infile.xcell, infile.ycell) /\ lmod.d_z = infile.zcell
        ELSE /\ lmod.dxy = Min2(AxisCell(Column(infile.rows, 1)), AxisCell(Column(infile.rows, 2)))
             /\ lmod.d_z = AxisCell(Column(infile.rows, 3))

\* C22 for import_ascii_xyz_model alone
C22_FinerHorizontalCellAscii ==
    (pc = "imported" /\ infile.kind = "xyz") =>
        /\ lmod.dxy = Min2(AxisCell(Column(infile.rows, 1)), AxisCell(Column(infile.rows, 2)))
        /\ lmod.d_z = AxisCell(Column(infile.rows, 3))

\* C23: import_ascii_xyz_model derives for each axis the largest difference
\* between neighbours of the sorted distinct coordinates, whatever the order
\* of the rows.
C23_CellFromSortedCoordinates ==
    (pc = "imported" /\ infile.kind = "xyz") =>
        /\ lmod.dxy = Min2(SortedCell(Column(infile.rows, 1)), SortedCell(Column(infile.rows, 2)))
        /\ lmod.d_z = SortedCell(Column(infile.rows, 3))

\* C23 for the files whose rows list every axis in ascending or descending order
C23_CellOfMonotoneFiles ==
    (pc = "imported" /\ infile.kind = "xyz"
       /\ \A k \in 1..3 : \/ FirstSeen(Column(infile.rows, k)) = Unique(Column(infile.rows, k))
                          \/ \A n \in DOMAIN Unique(Column(infile.rows, k)) :
                                FirstSeen(Column(infile.rows, k))[n] =
                                Unique(Column(infile.rows, k))[Len(Unique(Column(infile.rows, k))) + 1 - n]) =>
        /\ lmod.dxy = Min2(SortedCell(Column(infile.rows, 1)), SortedCell(Column(infile.rows, 2)))
        /\ lmod.d_z = SortedCell(Column(infile.rows, 3))

\* all samples of the file share one value on some axis
DegenerateAxis == \E k \in 1..3 : Cardinality(Range(Column(infile.rows, k))) = 1

\* C25: when all samples share one value on some axis, both importers fail
\* and produce no model: no cell size, extent or grid is derived.
C25_DegenerateAxisFails ==
    (pc \in {"imported", "raised", "pdb"} /\ DegenerateAxis) =>
        (pc = "raised" /\ lmod = ResetVariables(LithModel))

\* C25 for import_ascii_xyz_model alone
C25_DegenerateAxisFailsAscii ==
    (pc \in {"imported", "raised", "pdb"} /\ DegenerateAxis /\ infile.kind = "xyz") =>
        (pc = "raised" /\ lmod = ResetVariables(LithModel))

\* the computed cell of every sample lies in the grid
AllInGrid ==
    \A i \in DOMAIN infile.rows :
        LET c == SampleCell(lmod, infile.rows[i])
        IN  0 <= c[1] /\ c[1] < lmod.numx /\ 0 <= c[2] /\ c[2] < lmod.numy /\ 0 <= c[3] /\ c[3] < lmod.numz

\* C28: for a file with at least two distinct values on every axis,
\* import_ascii_xyz_model derives positive cell sizes and computes for every
\* sample a cell inside the grid; the scatter loop's except branch is not taken.
C28_ScatterInGrid ==
    (pc # "import" /\ infile.kind = "xyz" /\ ~DegenerateAxis) =>
        /\ pc = "imported"
        /\ lmod.dxy > 0 /\ lmod.d_z > 0
        /\ AllInGrid

\* a finished import of an x,y,z,label file with three x values first seen out
\* of order and a sample in the last but one column of the grid
C28_Witness ==
    /\ pc = "imported" /\ infile.kind = "xyz" /\ ~DegenerateAxis
    /\ Len(FirstSeen(Column(infile.rows, 1))) = 3
    /\ FirstSeen(Column(infile.rows, 1)) # Unique(Column(infile.rows, 1))
    /\ \E i \in DOMAIN infile.rows : SampleCell(lmod, infile.rows[i])[1] = lmod.numx - 2

-----------------------------------------------------------------------------
(* Importing a block model that declares any cell sizes *)

\* the cell sizes the first row of a block model may declare
DeclaredCells == {-2, 0, 2}

\* a block model of one lithology with cell sizes from DeclaredCells, or an
\* x,y,z,label file of the same samples
InitCells ==
    /\ pc = "import"
    /\ \E xs \in (SUBSET {0, 2, 4}) \ {{}}, ys \in {{0}, {0, 2}}, zs \in {{0}, {0, 2}},
          kind \in {"xyz", "leapfrog"}, xcell \in DeclaredCells, ycell \in DeclaredCells,
          zcell \in DeclaredCells :
          /\ kind = "xyz" => (xcell = 0 /\ ycell = 0 /\ zcell = 0)
          /\ \E xo \in Perms(xs), yo \in Perms(ys), zo \in Perms(zs) :
                infile = [kind |-> kind,
                          rows |-> Rows(xo, yo, zo, [v \in xs |-> "dyke"]),
                          xcell |-> xcell, ycell |-> ycell, zcell |-> zcell]
    /\ lmod = LithModel
    /\ emod = None /\ indict = None
    /\ datmaster = None /\ datslave = None /\ master0 = None /\ slave0 = None /\ liths = <<>>
    /\ lmod0 = None /\ gorder = None /\ NoBar

SpecCells == InitCells /\ [][NextImport]_vars

\* a cell size of the import is zero or negative
NonPositiveCell ==
    /\ infile.kind = "leapfrog"
    /\ (infile.xcell <= 0 \/ infile.ycell <= 0 \/ infile.zcell <= 0)

\* C24: when a cell size derived by import_ascii_xyz_model or declared in the
\* first row read by import_leapfrog_csv is zero or negative, the import fails
\* before an extent, a dimension, a catalogue entry or a grid cell is written.
C24_NonPositiveCellRejected ==
    (pc \in {"imported", "raised", "pdb"} /\ NonPositiveCell) =>
        (pc = "raised" /\ lmod = ResetVariables(LithModel))

\* the cell sizes import_ascii_xyz_model derives are positive whenever it derives them
C24_AsciiCellsPositive ==
    (pc \in {"imported", "pdb"} /\ infile.kind = "xyz") => (lmod.dxy > 0 /\ lmod.d_z > 0)

\* the computed cell of row i lies outside the grid of the model
OutOfGrid(i) ==
    LET c == SampleCell(lmod, infile.rows[i])
    IN  ~(0 <= c[1] /\ c[1] < lmod.numx /\ 0 <= c[2] /\ c[2] < lmod.numy /\ 0 <= c[3] /\ c[3] < lmod.numz)

\* the grid after the scatter loop has gone through the first n rows
GridAfter(n) ==
    Scatter([lm |-> [lmod EXCEPT !.lith_index = [c \in DOMAIN lmod.lith_index |-> Unset]], err |-> ""],
            SubSeq(infile.rows, 1, n), 1, IF infile.kind = "leapfrog" THEN "blank" ELSE "").lm.lith_index

\* C26: when the computed cell of a sample lies outside the grid the import
\* fails as a whole: the sample and the samples after it write no cell and the
\* call does not wait for input.
C26_OutOfRangeAborts ==
    (/\ pc \in {"imported", "raised", "pdb"}
     /\ lmod.lith_index # <<>> /\ lmod.dxy # 0 /\ lmod.d_z # 0
     /\ \E i \in DOMAIN infile.rows : OutOfGrid(i)) =>
        /\ pc = "raised"
        /\ \E n \in 0..Len(infile.rows) :
              /\ \A i \in 1..n : ~OutOfGrid(i)
              /\ lmod.lith_index = GridAfter(n)

-----------------------------------------------------------------------------
(* Loading a saved model: ImportMod3D.settings with the npz filter *)

\* a faulty variant of DefaultId: an empty dataid is left as it is
DefaultIdNone(layer, key) == layer

\* if self.lmod.griddata[i].dataid == '': self.lmod.griddata[i].dataid = i
DefaultId(layer, key) == IF layer.dataid = "" THEN [layer EXCEPT !.dataid = key] ELSE layer

\* the loop "for i in self.lmod.griddata" of settings
DefaultIds(grids) == [k \in DOMAIN grids |-> DefaultId(grids[k], k)]

\* what settings does after dict2lmod returned r
SettingsFinish(r) == IF r.err THEN r ELSE [r EXCEPT !.lm.griddata = DefaultIds(@)]

\* settings() with the npz filter on the record d: the variables are reset,
\* the record decoded and the empty dataids filled in
SettingsNpzResult(lm, d, gkeys) == SettingsFinish(Dict2Lmod(ResetVariables(lm), d, gkeys))

\* the keys of the layers of a saved model
LoadKeys == {"DTM Dataset", "Magnetic Dataset", "Calculated Gravity"}

\* the spatial reference a layer was saved with
LoadWkts == {"", "W1", "W2"}

\* the identifiers a layer was saved with: a dataid, a bandid of the legacy
\* format, or both
LoadIds ==
    { [dataid |-> ""], [dataid |-> "Band 1"], [dataid |-> "DTM Dataset"],
      [bandid |-> ""], [bandid |-> "Band 1"],
      [dataid |-> "", bandid |-> "Band 2"], [dataid |-> "Band 1", bandid |-> "Band 2"] }

\* a saved layer with spatial reference wkt and the identifiers ids
LoadLayer(base, wkt, ids) ==
    [f \in ((DOMAIN base) \ {"dataid"}) \cup (DOMAIN ids) |->
        IF f \in DOMAIN ids THEN ids[f] ELSE IF f = "wkt" THEN wkt ELSE base[f]]

\* the model a record was saved from
SavedModel(layers) ==
    [MkModel(1, 1, 0, MaxCols, 2, [A |-> 1], Alternate(1, 0), layers)
        EXCEPT !.custprofx = (0 :> <<0, 4>>), !.custprofy = (0 :> <<0, 0>>)]

\* the keys a damaged record may lack ("" for a complete record)
MissingKeys == {"", "lithkeys", "gregional", "zrange", "mlut", "griddata", "A_hintn", "A_zobsg"}

\* record d without key k
Without(d, k) == [x \in (DOMAIN d) \ {k} |-> d[x]]

\* the model the importer holds before the load: a new one, or one loaded before
LoadTargets ==
    { LithModel,
      MkModel(2, 1, 0, 1, 4, [B |-> 1], Alternate(1, 1),
              [k \in {"Gravity Dataset"} |-> MkData(0, 4, 4, 4, 1, (0 :> 500), "old")]) }

\* a record on file: the record of a saved model of three layers, complete
\* with any spatial references and identifiers, or lacking a key
InitLoad ==
    /\ pc = "load"
    /\ \E wk \in [LoadKeys -> LoadWkts], ids \in [LoadKeys -> LoadIds], missing \in MissingKeys :
          /\ missing # "" => (wk = [k \in LoadKeys |-> ""] /\ ids = [k \in LoadKeys |-> [dataid |-> ""]])
          /\ indict = Without(Lmod2Dict(SavedModel([k \in LoadKeys |->
                                  LoadLayer(MkData(0, 2, 2, 4, 1, (0 :> 300), ""), wk[k], ids[k])]),
                                        <<"Background", "A">>),
                              missing)
    /\ lmod0 \in LoadTargets
    /\ lmod = lmod0
    /\ gorder = <<>>
    /\ emod = None /\ infile = None /\ NoBar
    /\ datmaster = None /\ datslave = None /\ master0 = None /\ slave0 = None /\ liths = <<>>

\* what settings leaves
SettingsNpzLeaves(r, gkeys) ==
    /\ lmod' = r.lm
    /\ gorder' = gkeys
    /\ pc' = IF r.err THEN "keyerror" ELSE "loaded"

\* settings(): an npz file is chosen
SettingsNpz ==
    /\ pc = "load"
    /\ \E gkeys \in Perms(IF "griddata" \in DOMAIN indict THEN DOMAIN indict["griddata"] ELSE {}) :
          SettingsNpzLeaves(SettingsNpzResult(lmod, indict, gkeys), gkeys)
    /\ UNCHANGED <<datmaster, datslave, master0, slave0, liths, emod, indict, infile, lmod0, pbar, seen, clock, rcopy>>

\* settings(): the file dialog is closed without a file (filename == '')
SettingsNoFile ==
    /\ pc = "load"
    /\ pc' = "nofile"
    /\ UNCHANGED <<datmaster, datslave, master0, slave0, liths, emod, indict, lmod, infile,
                   lmod0, gorder, pbar, seen, clock, rcopy>>

NextLoad == SettingsNpz \/ SettingsNoFile

SpecLoad == InitLoad /\ [][NextLoad]_vars

\* C15: dict2lmod on a record that lacks a required key fails and leaves the
\* model it was to fill exactly as it found it.
C15_FailedDecodeLeavesModel ==
    pc = "keyerror" => lmod = ResetVariables(lmod0)

\* C15 for a record without 'lithkeys', the first key dict2lmod reads
C15_NoLithkeysLeavesModel ==
    (pc = "keyerror" /\ "lithkeys" \notin DOMAIN indict) => lmod = ResetVariables(lmod0)

\* the first spatial reference that is not empty among the layers grids taken
\* in the order keys, from layer i on; None when there is none
RECURSIVE FirstWkt(_, _, _)
FirstWkt(grids, keys, i) ==
    IF i > Len(keys) THEN None
    ELSE IF grids[keys[i]].wkt # "" /\ grids[keys[i]].wkt # None THEN grids[keys[i]].wkt
    ELSE FirstWkt(grids, keys, i + 1)

\* C17: a layer saved with a spatial reference keeps it, and a layer saved
\* without one takes the first non-empty reference in the order in which the
\* layers are enumerated.
C17_FirstWktBackfill ==
    pc = "loaded" =>
        \A k \in DOMAIN lmod.griddata :
            LET w == indict["griddata"][k].wkt
                first == FirstWkt(indict["griddata"], gorder, 1)
            IN  lmod.griddata[k].wkt = IF (w = "" \/ w = None) /\ first # None THEN first ELSE w

\* the half of C17 about the layers saved with a spatial reference
C17_OwnWktKept ==
    pc = "loaded" =>
        \A k \in DOMAIN lmod.griddata :
            indict["griddata"][k].wkt \notin {"", None} => lmod.griddata[k].wkt = indict["griddata"][k].wkt

\* the identifier C18 gives the layer saved as layer under key
ExpectedId(layer, key) ==
    IF "dataid" \in DOMAIN layer /\ layer.dataid # "" THEN layer.dataid
    ELSE IF "bandid" \in DOMAIN layer /\ layer.bandid # "" THEN layer.bandid
    ELSE key

\* C18: after settings has decoded a record every layer's dataid is the saved
\* dataid when that is not empty, else the saved bandid when that is not
\* empty, else the layer's key; no layer has a bandid and no dataid is empty.
C18_DataIdDefaulting ==
    pc = "loaded" =>
        /\ DOMAIN lmod.griddata = DOMAIN indict["griddata"]
        /\ \A k \in DOMAIN lmod.griddata :
              /\ "bandid" \notin DOMAIN lmod.griddata[k]
              /\ lmod.griddata[k].dataid # ""
              /\ lmod.griddata[k].dataid = ExpectedId(indict["griddata"][k], k)

\* a loaded record with a layer that keeps its dataid beside a bandid, a legacy
\* layer that takes its bandid and a legacy layer with an empty bandid that
\* takes its key
C18_Witness ==
    /\ pc = "loaded"
    /\ {"dataid", "bandid"} \subseteq DOMAIN indict["griddata"]["DTM Dataset"]
    /\ indict["griddata"]["DTM Dataset"].dataid = "Band 1"
    /\ indict["griddata"]["DTM Dataset"].bandid = "Band 2"
    /\ lmod.griddata["DTM Dataset"].dataid = "Band 1"
    /\ "dataid" \notin DOMAIN indict["griddata"]["Magnetic Dataset"]
    /\ indict["griddata"]["Magnetic Dataset"].bandid = "Band 1"
    /\ "dataid" \notin DOMAIN indict["griddata"]["Calculated Gravity"]
    /\ indict["griddata"]["Calculated Gravity"].bandid = ""
    /\ lmod.griddata["Magnetic Dataset"].dataid = "Band 1"
    /\ lmod.griddata["Calculated Gravity"].dataid = "Calculated Gravity"

\* C19: in a loaded model no two layers have the same display identifier.
C19_UniqueDisplayIds ==
    pc = "loaded" =>
        \A k1, k2 \in DOMAIN lmod.griddata :
            lmod.griddata[k1].dataid = lmod.griddata[k2].dataid => k1 = k2


-----------------------------------------------------------------------------
(* ProgressBar.iter *)

\* longest sequence handed to ProgressBar.iter
MaxItems == 3

\* largest value of time.clock(), in seconds
MaxClock == 150

\* by how much time.clock() may have advanced between two readings
ClockSteps == {0, 2, 70}

\* the sequences handed to iter: up to MaxItems elements, repeats included
Iterables == UNION { [1..n -> {"a", "b"}] : n \in 0..MaxItems }

\* setFormat('%p%')
PlainFormat == <<"%p%">>

\* '%p% ' + str(tleft) + 'min left' when tleft > 60, '%p% ' + str(tleft) + 's left'
\* otherwise, for tleft = num / den with den > 0: int(tleft // 60), int(tleft)
TimeLeftFormat(num, den) ==
    IF num > 60 * den THEN <<"%p% ", num \div (60 * den), "min left">>
    ELSE <<"%p% ", TruncDiv(num, den), "s left">>

\* a faulty variant of Yielded: the first element is handed out at every pass
YieldedFirst(iterable, i) == iterable[1]

\* the object the loop "for obj in iterable" hands out at "yield obj" when i
\* passes are done
Yielded(iterable, i) == iterable[i + 1]

\* ProgressBar(pbar, pbarmain) after resetall(maximum, mmax), mvalue main steps
\* later, with the two widgets
ProgressBar(iterable, mmax, mvalue, mtime) ==
    [iterable |-> iterable, max |-> 1, value |-> 0, mmax |-> mmax, mvalue |-> mvalue,
     otime |-> None, mtime |-> mtime,
     bar |-> [minimum |-> 0, maximum |-> 1, value |-> 0, format |-> PlainFormat],
     main |-> [minimum |-> 0, maximum |-> mmax, value |-> mvalue, format |-> PlainFormat],
     frame |-> <<>>]

\* iter up to the loop: total = len(iterable), the bar's range is set and the
\* three clocks take the reading now
IterEnter(pb, now) ==
    [pb EXCEPT !.max = Len(pb.iterable), !.otime = now,
               !.bar = [minimum |-> 0, maximum |-> Len(pb.iterable), value |-> 0, format |-> pb.bar.format],
               !.frame = [total |-> Len(pb.iterable), i |-> 0, time1 |-> now, time2 |-> now]]

\* the body of "if time2-time1 > 1": the bar shows i and the time left
BarUpdate(pb, i, now) ==
    [pb EXCEPT !.bar.value = i,
               !.bar.format = TimeLeftFormat((pb.frame.total - i) * (now - pb.otime), i),
               !.frame.time1 = now]

\* the loop body after "yield obj": i += 1, time2 = time.clock() and the
\* update when more than a second went by since the last one
AfterYield(pb, now) ==
    IF now - pb.frame.time1 > 1
    THEN BarUpdate([pb EXCEPT !.frame.i = @ + 1, !.frame.time2 = now], pb.frame.i + 1, now)
    ELSE [pb EXCEPT !.frame.i = @ + 1, !.frame.time2 = now]

\* incrmain(): the main bar is stepped and shows the time left
IncrMain(pb, now) ==
    [pb EXCEPT !.mvalue = @ + 1, !.main.value = pb.mvalue + 1,
               !.main.format = TimeLeftFormat((pb.mmax - (pb.mvalue + 1)) * (now - pb.mtime), pb.mvalue + 1)]

\* iter after the loop: the bar is full, the main bar stepped, self.value = 0
IterFinish(pb, now) ==
    [IncrMain([pb EXCEPT !.bar.format = PlainFormat, !.bar.value = pb.frame.total], now) EXCEPT !.value = 0]

\* a bar after resetall and mvalue earlier runs, and a sequence for iter; the
\* loop that drives the generator has been handed nothing yet
InitBar ==
    /\ pc = "iter"
    /\ \E it \in Iterables, mmax \in 1..2, mvalue \in 0..1, now \in {0, 2} :
          /\ pbar = ProgressBar(it, mmax, mvalue, 0)
          /\ clock = now
    /\ seen = <<>>
    /\ datmaster = None /\ datslave = None /\ master0 = None /\ slave0 = None /\ liths = <<>>
    /\ emod = None /\ indict = None /\ lmod = None /\ infile = None /\ lmod0 = None /\ gorder = None
    /\ rcopy = None

\* the generator runs up to its next "yield obj", or to its end when the
\* sequence is used up; t2 is the clock read inside incrmain
IterResume(pb, t2) ==
    IF pb.frame.i < pb.frame.total
    THEN /\ pbar' = pb
         /\ seen' = Append(seen, Yielded(pb.iterable, pb.frame.i))
         /\ pc' = "yield"
    ELSE /\ pbar' = IterFinish(pb, t2)
         /\ seen' = seen
         /\ pc' = "stop"

\* the first next() on the generator
IterStart ==
    /\ pc = "iter"
    /\ \E d1 \in ClockSteps, d2 \in ClockSteps :
          /\ clock + d1 + d2 <= MaxClock
          /\ clock' = IF Len(pbar.iterable) = 0 THEN clock + d1 + d2 ELSE clock + d1
          /\ IterResume(IterEnter(pbar, clock + d1), clock + d1 + d2)
    /\ UNCHANGED <<datmaster, datslave, master0, slave0, liths, emod, indict, lmod, infile, lmod0, gorder, rcopy>>

\* a later next(): the generator goes on after its "yield obj"
IterNext ==
    /\ pc = "yield"
    /\ \E d1 \in ClockSteps, d2 \in ClockSteps :
          /\ clock + d1 + d2 <= MaxClock
          /\ clock' = IF pbar.frame.i + 1 = pbar.frame.total THEN clock + d1 + d2 ELSE clock + d1
          /\ IterResume(AfterYield(pbar, clock + d1), clock + d1 + d2)
    /\ UNCHANGED <<datmaster, datslave, master0, slave0, liths, emod, indict, lmod, infile, lmod0, gorder, rcopy>>

\* the loop that drives the generator is left early: the generator is closed
\* at its "yield obj" and nothing after it runs
IterClose ==
    /\ pc = "yield"
    /\ pc' = "closed"
    /\ UNCHANGED <<datmaster, datslave, master0, slave0, liths, emod, indict, lmod, infile,
                   lmod0, gorder, pbar, seen, clock, rcopy>>

NextBar == IterStart \/ IterNext \/ IterClose

SpecBar == InitBar /\ [][NextBar]_vars

\* s is the beginning of t
IsPrefix(s, t) == Len(s) <= Len(t) /\ \A j \in 1..Len(s) : s[j] = t[j]

\* C20: ProgressBar.iter hands out the elements of the sequence, each once and
\* in the order of the sequence, whatever the clock does: what has been handed
\* out is always the beginning of the sequence, one element per pass, and the
\* whole sequence when the generator is exhausted.
C20_PassThrough ==
    /\ pc \in {"iter", "yield", "stop", "closed"} => IsPrefix(seen, pbar.iterable)
    /\ pc = "yield" => Len(seen) = pbar.frame.i + 1
    /\ pc = "stop" => seen = pbar.iterable

\* an exhausted generator over a sequence of MaxItems elements with a repeated
\* element, during which the bar was updated more than 70 seconds after the
\* start and at whose end the main bar shows the time left
C20_Witness ==
    /\ pc = "stop"
    /\ seen = pbar.iterable
    /\ Len(seen) = MaxItems
    /\ seen[1] = seen[3] /\ seen[1] # seen[2]
    /\ pbar.frame.time1 - pbar.otime > 70
    /\ pbar.main.format # PlainFormat


-----------------------------------------------------------------------------
(* The counters of a ProgressBar *)

\* largest maximum handed to resetall and resetsub
MaxBar == 2

\* largest value of the main counter followed
MaxCount == 3

\* incr(): the sub counter is stepped; at its maximum it rolls over into the
\* main counter, and stays at its maximum once the main counter is at its own
Incr(pb) ==
    IF pb.value < pb.max
    THEN LET rolls == pb.value + 1 = pb.max /\ pb.mvalue < pb.mmax
             mvalue == IF rolls THEN pb.mvalue + 1 ELSE pb.mvalue
             value == IF mvalue = pb.mmax THEN pb.max ELSE IF rolls THEN 0 ELSE pb.value + 1
         IN  [pb EXCEPT !.value = value, !.mvalue = mvalue, !.bar.value = value,
                        !.main.value = IF rolls THEN mvalue ELSE @]
    ELSE pb

\* the loop of iter driven to its end, the clock advancing by d at every pass
RECURSIVE IterLoop(_, _, _)
IterLoop(pb, now, d) ==
    IF pb.frame.i < pb.frame.total THEN IterLoop(AfterYield(pb, now + d), now + d, d) ELSE pb

\* a complete run of iter over the sequence it
IterRun(pb, it, now, d) ==
    IterFinish(IterLoop(IterEnter([pb EXCEPT !.iterable = it], now), now, d), now + d * Len(it))

\* ProgressBar(pbar, pbarmain): the constructor has called resetall()
InitCounters ==
    /\ pc = "bar"
    /\ pbar = ProgressBar(<<>>, 1, 0, 0)
    /\ clock = 0
    /\ seen = <<>>
    /\ datmaster = None /\ datslave = None /\ master0 = None /\ slave0 = None /\ liths = <<>>
    /\ emod = None /\ indict = None /\ lmod = None /\ infile = None /\ lmod0 = None /\ gorder = None
    /\ rcopy = None

\* a method of the bar has run and left pb, the clock at now
BarCall(pb, now) ==
    /\ now <= MaxClock
    /\ pb.mvalue <= MaxCount
    /\ pbar' = pb
    /\ clock' = now
    /\ UNCHANGED <<pc, datmaster, datslave, master0, slave0, liths, emod, indict, lmod, infile,
                   lmod0, gorder, seen, rcopy>>

CallIncr ==
    /\ pc = "bar"
    /\ BarCall(Incr(pbar), clock)

CallIncrMain ==
    /\ pc = "bar"
    /\ \E d \in {0, 70} : BarCall(IncrMain(pbar, clock + d), clock + d)

CallIter ==
    /\ pc = "bar"
    /\ \E it \in Iterables, d \in {0, 70} : BarCall(IterRun(pbar, it, clock, d), clock + d * Len(it))

CallMaxAll ==
    /\ pc = "bar"
    /\ BarCall([pbar EXCEPT !.mvalue = pbar.mmax, !.value = pbar.max, !.main.value = pbar.mmax,
                            !.bar.value = pbar.max, !.bar.format = PlainFormat,
                            !.main.format = PlainFormat], clock)

CallResetAll ==
    /\ pc = "bar"
    /\ \E maximum \in 1..MaxBar, mmax \in 1..MaxBar :
          BarCall([pbar EXCEPT !.mtime = clock, !.max = maximum, !.value = 0, !.mmax = mmax, !.mvalue = 0,
                               !.bar = [minimum |-> 0, maximum |-> maximum, value |-> 0, format |-> PlainFormat],
                               !.main = [minimum |-> 0, maximum |-> mmax, value |-> 0, format |-> PlainFormat]],
                  clock)

CallResetSub ==
    /\ pc = "bar"
    /\ \E maximum \in 1..MaxBar :
          BarCall([pbar EXCEPT !.max = maximum, !.value = 0,
                               !.bar = [minimum |-> 0, maximum |-> maximum, value |-> 0, format |-> PlainFormat]],
                  clock)

NextCounters == CallIncr \/ CallIncrMain \/ CallIter \/ CallMaxAll \/ CallResetAll \/ CallResetSub

SpecCounters == InitCounters /\ [][NextCounters]_vars

\* C29: in every state reached from resetall by incr, incrmain, complete runs
\* of iter, resetsub, resetall and maxall, 0 <= value <= max and
\* 0 <= mvalue <= mmax.
C29_CountersInBounds ==
    pc = "bar" =>
        /\ 0 <= pbar.value /\ pbar.value <= pbar.max
        /\ 0 <= pbar.mvalue /\ pbar.mvalue <= pbar.mmax

\* the half of C29 about the sub counter, and the lower bound of the main counter
C29_SubCounterInBounds ==
    pc = "bar" => (0 <= pbar.value /\ pbar.value <= pbar.max /\ 0 <= pbar.mvalue)

\* C29 without incrmain and iter: incr, resetsub, resetall and maxall alone
C29_IncrKeepsBounds ==
    [][(pc = "bar" /\ pbar.mvalue <= pbar.mmax /\ (CallIncr \/ CallMaxAll \/ CallResetAll \/ CallResetSub))
          => pbar'.mvalue <= pbar'.mmax]_vars


-----------------------------------------------------------------------------
(* Ranged copy *)

\* largest value followed of the master spin box, whose maximum is 999999999
MaxSpin == 2

\* rmax + 1: the number of layers or profiles
NumSlices(lmod1, view) ==
    IF view.islayer THEN lmod1.numz ELSE IF view.is_ew THEN lmod1.numy ELSE lmod1.numx

\* the cell of lith_index that position p of the view of slice i stands for
SliceCell(lmod1, view, i, p) ==
    IF view.islayer THEN <<p[1], p[2], i>>
    ELSE IF view.is_ew THEN <<p[1], i, lmod1.numz - 1 - p[2]>>
    ELSE <<i, p[1], lmod1.numz - 1 - p[2]>>

\* the view of slice i on the grid index: lith_index[:, :, i],
\* lith_index[:, i, ::-1] or lith_index[i, :, ::-1]
SliceView(index, lmod1, view, i) ==
    [p \in (IF view.islayer THEN (0..(lmod1.numx - 1)) \X (0..(lmod1.numy - 1))
            ELSE IF view.is_ew THEN (0..(lmod1.numx - 1)) \X (0..(lmod1.numz - 1))
            ELSE (0..(lmod1.numy - 1)) \X (0..(lmod1.numz - 1)))
        |-> index[SliceCell(lmod1, view, i, p)]]

\* 1 where the slice holds the lith_index of a selected lithology
Selected(lmod1, slice, items) ==
    [p \in DOMAIN slice |-> IF \E j \in items : slice[p] = lmod1.lith_list[j].lith_index THEN 1 ELSE 0]

\* a mask that is set where either selection holds
CopyMaskEither(mslice, lslice) ==
    [p \in DOMAIN mslice |-> IF mslice[p] + lslice[p] > 0 THEN 1 ELSE 0]

\* mlslice: mslice + lslice, its ones cleared, what is left set to one
CopyMask(mslice, lslice) ==
    [p \in DOMAIN mslice |-> IF mslice[p] + lslice[p] = 1 THEN 0
                             ELSE IF mslice[p] + lslice[p] > 0 THEN 1 ELSE 0]

\* one pass of "for i in range(lstart, lend+1)" with the views ltmp and mtmp
\* as they are now: "ltmp[mlslice == 1] = 0; ltmp += mtmp2" writes to the grid
RcopySlice(index, lmod1, view, i, ltmp, mtmp, mlslice) ==
    [c \in DOMAIN index |->
        IF \E p \in DOMAIN ltmp : SliceCell(lmod1, view, i, p) = c
        THEN LET p == CHOOSE q \in DOMAIN ltmp : SliceCell(lmod1, view, i, q) = c
             IN  (IF mlslice[p] = 1 THEN 0 ELSE ltmp[p]) + (IF mlslice[p] = 0 THEN 0 ELSE mtmp[p])
        ELSE index[c]]

RECURSIVE RcopyLoop(_, _, _, _, _, _, _)
RcopyLoop(index, lmod1, view, dlg, mslice, i, lend) ==
    IF i > lend THEN index
    ELSE RcopyLoop(RcopySlice(index, lmod1, view, i,
                              SliceView(index, lmod1, view, i),
                              SliceView(index, lmod1, view, dlg.lmaster),
                              CopyMask(mslice, Selected(lmod1, SliceView(index, lmod1, view, i), dlg.lithdel))),
                   lmod1, view, dlg, mslice, i + 1, lend)

\* rcopy_dialog(lmod1, islayer, is_ew), the dialog closed with tmp and holding dlg
RcopyDialog(lmod1, view, dlg) ==
    LET lstart == IF dlg.start > dlg.end THEN dlg.end ELSE dlg.start
        lend0 == IF dlg.start > dlg.end THEN dlg.start ELSE dlg.end
        lend == IF lend0 > NumSlices(lmod1, view) THEN NumSlices(lmod1, view) ELSE lend0
    IN  IF dlg.tmp = 0 THEN [lm |-> lmod1, err |-> "cancelled"]
        ELSE IF dlg.lmaster >= NumSlices(lmod1, view) THEN [lm |-> lmod1, err |-> "IndexError"]
        ELSE [lm |-> [lmod1 EXCEPT !.lith_index =
                         RcopyLoop(lmod1.lith_index, lmod1, view, dlg,
                                   Selected(lmod1, SliceView(lmod1.lith_index, lmod1, view, dlg.lmaster),
                                            dlg.lithcopy),
                                   lstart, lend)],
              err |-> "copied"]

\* what the dialog can hold when it is closed: the range spin boxes stop at rmax
Dialogs(lmod1, view, tmp) ==
    [tmp : {tmp}, islayer : {view.islayer}, is_ew : {view.is_ew},
     lithcopy : SUBSET DOMAIN lmod1.lith_list, lithdel : SUBSET DOMAIN lmod1.lith_list,
     start : 0..(NumSlices(lmod1, view) - 1), end : 0..(NumSlices(lmod1, view) - 1),
     lmaster : 0..MaxSpin]

\* the models tried: two cells along every axis, Background and one lithology
InitRcopy ==
    /\ pc = "dialog"
    /\ \E index \in [(0..1) \X (0..1) \X (0..1) -> {0, 1}] :
          lmod = [numx |-> 2, numy |-> 2, numz |-> 2,
                  lith_list |-> [Background |-> [lith_index |-> 0], dyke |-> [lith_index |-> 1]],
                  lith_index |-> index]
    /\ lmod0 = lmod
    /\ rcopy \in {[islayer |-> TRUE, is_ew |-> TRUE], [islayer |-> FALSE, is_ew |-> TRUE],
                  [islayer |-> FALSE, is_ew |-> FALSE]}
    /\ datmaster = None /\ datslave = None /\ master0 = None /\ slave0 = None /\ liths = <<>>
    /\ emod = None /\ indict = None /\ infile = None /\ gorder = None
    /\ pbar = None /\ seen = None /\ clock = None

\* rcopy.exec_() returns 1: Ok
RcopyAccepted ==
    /\ pc = "dialog"
    /\ \E dlg \in Dialogs(lmod, rcopy, 1) :
          /\ rcopy' = dlg
          /\ lmod' = RcopyDialog(lmod, rcopy, dlg).lm
          /\ pc' = RcopyDialog(lmod, rcopy, dlg).err
    /\ UNCHANGED <<datmaster, datslave, master0, slave0, liths, emod, indict, infile, lmod0,
                   gorder, pbar, seen, clock>>

\* rcopy.exec_() returns 0: Cancel
RcopyRejected ==
    /\ pc = "dialog"
    /\ \E dlg \in Dialogs(lmod, rcopy, 0) :
          /\ rcopy' = dlg
          /\ lmod' = RcopyDialog(lmod, rcopy, dlg).lm
          /\ pc' = RcopyDialog(lmod, rcopy, dlg).err
    /\ UNCHANGED <<datmaster, datslave, master0, slave0, liths, emod, indict, infile, lmod0,
                   gorder, pbar, seen, clock>>

NextRcopy == RcopyAccepted \/ RcopyRejected

SpecRcopy == InitRcopy /\ [][NextRcopy]_vars

\* the slice a cell lies in, and the cell of slice i at the same position
SliceOf(c) == IF rcopy.islayer THEN c[3] ELSE IF rcopy.is_ew THEN c[2] ELSE c[1]

SamePosition(c, i) ==
    IF rcopy.islayer THEN <<c[1], c[2], i>> ELSE IF rcopy.is_ew THEN <<c[1], i, c[3]>> ELSE <<i, c[2], c[3]>>

\* the cell is taken from the master: it lies in the range, the master cell
\* holds a lithology to copy and the cell itself a lithology to overwrite
Taken(c) ==
    /\ SliceOf(c) >= (IF rcopy.start < rcopy.end THEN rcopy.start ELSE rcopy.end)
    /\ SliceOf(c) <= (IF rcopy.start < rcopy.end THEN rcopy.end ELSE rcopy.start)
    /\ \E j \in rcopy.lithcopy :
          lmod0.lith_index[SamePosition(c, rcopy.lmaster)] = lmod0.lith_list[j].lith_index
    /\ \E j \in rcopy.lithdel : lmod0.lith_index[c] = lmod0.lith_list[j].lith_index

\* C30: after an accepted ranged copy a cell holds the master slice's value at
\* its position exactly when it lies in the range, the master cell's lithology
\* is to be copied and its own lithology is to be overwritten; every other
\* cell, and so every slice out of the range and the master slice, is as it
\* was, as is the rest of the model; a cancelled dialog changes nothing.
C30_RangedCopyFrame ==
    /\ pc = "copied" =>
          /\ \A c \in DOMAIN lmod0.lith_index :
                lmod.lith_index[c] = IF Taken(c) THEN lmod0.lith_index[SamePosition(c, rcopy.lmaster)]
                                     ELSE lmod0.lith_index[c]
          /\ \A c \in DOMAIN lmod0.lith_index :
                SliceOf(c) = rcopy.lmaster => lmod.lith_index[c] = lmod0.lith_index[c]
          /\ [lmod EXCEPT !.lith_index = lmod0.lith_index] = lmod0
    /\ pc = "cancelled" => lmod = lmod0

\* a copy over a range that holds the master slice changed a cell, and left
\* alone a cell whose lithology was not to be overwritten
C30_Witness ==
    /\ pc = "copied"
    /\ rcopy.start > rcopy.end
    /\ rcopy.lmaster >= rcopy.end /\ rcopy.lmaster <= rcopy.start
    /\ \E c \in DOMAIN lmod0.lith_index : lmod.lith_index[c] # lmod0.lith_index[c]
    /\ \E c \in DOMAIN lmod0.lith_index :
          /\ ~Taken(c)
          /\ SliceOf(c) # rcopy.lmaster
          /\ lmod0.lith_index[c] # lmod0.lith_index[SamePosition(c, rcopy.lmaster)]
          /\ \E j \in rcopy.lithcopy :
                lmod0.lith_index[SamePosition(c, rcopy.lmaster)] = lmod0.lith_list[j].lith_index

\* a dialog closed with Cancel after its fields were set
C30_WitnessCancelled ==
    /\ pc = "cancelled"
    /\ rcopy.lithcopy # {} /\ rcopy.lithdel # {}

\* a master beyond the last slice stops the copy before it writes anything
C30_MasterBeyondModel ==
    pc = "IndexError" => (lmod = lmod0 /\ rcopy.lmaster >= NumSlices(lmod0, rcopy))


====
